---------------------------- MODULE Spec2Model ----------------------------
(***************************************************************************)
(* A model of the calculation engine of the Engineering Toolkit plugin     *)
(* (src/src/calcEngine.ts, class CalcEngine, first definition in the file) *)
(* with the formatting helpers of src/src/utils/format.ts.                 *)
(*                                                                         *)
(* Strings that the code inspects (displays, block keys, line keys) are    *)
(* sequences of tokens.  A quantity is a record [base, u]: the magnitude   *)
(* in the base unit of its dimension and the unit it is expressed in; a    *)
(* plain number has u = "".  A parsed expression is a small syntax tree.   *)
(***************************************************************************)
EXTENDS Integers, Sequences, FiniteSets, TLC

VARIABLES
  scopes,     \* CalcEngine.scopes: file path -> NoteScope (a partial map)
  settings,   \* plugin.settings, the fields the engine reads
  globalVars, \* CalcEngine.globalVars: name -> GlobalVarEntry
  saved,      \* the globalVars of the plugin's data file, as last saved
  working,    \* a scope that a caller of evaluateToEntries owns
  calls,      \* the calls that have begun and not returned, and their places
  last        \* history: the engine call that produced this state

vars == <<scopes, settings, globalVars, saved, working, calls, last>>

-----------------------------------------------------------------------------
(* Maps (JavaScript Map objects) as functions with a finite domain.        *)

EmptyMap == <<>>

MapSet(m, k, v) == [x \in (DOMAIN m) \cup {k} |-> IF x = k THEN v ELSE m[x]]

MapDelete(m, k) == [x \in (DOMAIN m) \ {k} |-> m[x]]

MapHas(m, k) == k \in DOMAIN m

-----------------------------------------------------------------------------
(* Units known to the arithmetic library, restricted to five dimensions.   *)
(* A quantity is a whole number of grains of its dimension: 10^-8 kg,      *)
(* 1 s, 10^-7 N, 10^-8 m^3/s, 1 A.  The library's factors are kept to the  *)
(* digits that a grain holds (1 lb = 0.45359237 kg, 1 lbf = 4.4482216 N,   *)
(* 1 gal/min = 0.00006309 m^3/s, 1 ft^3/min = 0.00047195 m^3/s).           *)

Units ==
  {"kg", "lb", "s", "min", "N", "lbf", "m^3/s", "gal/min", "ft^3/min", "A"}

\* the dimension signature of a unit (Unit.dimensions), by name
Dimension(u) ==
  CASE u = "" -> "none"
    [] u \in {"kg", "lb"} -> "mass"
    [] u \in {"s", "min"} -> "time"
    [] u \in {"N", "lbf"} -> "force"
    [] u \in {"m^3/s", "gal/min", "ft^3/min"} -> "flow"
    [] u = "A" -> "current"

\* how many grains of its dimension one unit is
UnitFactor(u) ==
  CASE u = "kg" -> 100000000
    [] u = "lb" -> 45359237
    [] u = "min" -> 60
    [] u = "N" -> 10000000
    [] u = "lbf" -> 44482216
    [] u = "m^3/s" -> 100000000
    [] u = "gal/min" -> 6309
    [] u = "ft^3/min" -> 47195
    [] OTHER -> 1

IsUnit(value) == value.u # ""

Num(n) == [base |-> n, u |-> ""]

Qty(n, u) == [base |-> n * UnitFactor(u), u |-> u]

\* Unit.to(target): the same quantity expressed in another unit of its dimension
UnitTo(value, target) ==
  IF target \in Units /\ Dimension(target) = Dimension(value.u)
  THEN [ok |-> TRUE, value |-> [base |-> value.base, u |-> target]]
  ELSE [ok |-> FALSE, error |-> "Units do not match"]

-----------------------------------------------------------------------------
(* Expressions: literals, symbols, sums and products by a constant.        *)

ENum(n) == [op |-> "num", n |-> n, unit |-> ""]
EQty(n, u) == [op |-> "num", n |-> n, unit |-> u]
\* a literal of n thousandths of a unit, such as 0.001 m^3/s
EMilli(n, u) == [op |-> "milli", n |-> n, unit |-> u]
ESym(x) == [op |-> "sym", name |-> x]
EAdd(l, r) == [op |-> "add", l |-> l, r |-> r]
EMul(l, k) == [op |-> "mul", l |-> l, k |-> k]
\* a text that math.parse rejects, such as "1 +"
EBad == [op |-> "bad"]

Ok(v) == [ok |-> TRUE, value |-> v]
Err(msg) == [ok |-> FALSE, error |-> msg]

RECURSIVE MathEvaluate(_, _)
MathEvaluate(expr, evaluationScope) ==
  CASE expr.op = "num" -> Ok(Qty(expr.n, expr.unit))
    [] expr.op = "milli" ->
         Ok([base |-> (expr.n * UnitFactor(expr.unit)) \div 1000,
             u |-> expr.unit])
    [] expr.op = "sym" ->
         IF MapHas(evaluationScope, expr.name)
         THEN Ok(evaluationScope[expr.name])
         ELSE Err("Undefined symbol")
    [] expr.op = "add" ->
         LET l == MathEvaluate(expr.l, evaluationScope)
             r == MathEvaluate(expr.r, evaluationScope)
         IN  IF ~l.ok THEN l
             ELSE IF ~r.ok THEN r
             ELSE IF Dimension(l.value.u) # Dimension(r.value.u)
                  THEN Err("Units do not match")
             ELSE Ok([base |-> l.value.base + r.value.base, u |-> l.value.u])
    [] expr.op = "mul" ->
         LET l == MathEvaluate(expr.l, evaluationScope)
         IN  IF ~l.ok THEN l
             ELSE Ok([base |-> l.value.base * expr.k, u |-> l.value.u])
    [] expr.op = "bad" -> Err("Unexpected end of expression")

\* the symbol nodes of the parse tree; a unit in a literal is a symbol node too
RECURSIVE SymbolNodes(_)
\* the symbols that the text of a unit holds
UnitSymbols(u) ==
  CASE u = "" -> {}
    [] u = "m^3/s" -> {"m", "s"}
    [] u = "gal/min" -> {"gal", "min"}
    [] u = "ft^3/min" -> {"ft", "min"}
    [] OTHER -> {u}

SymbolNodes(expr) ==
  CASE expr.op = "num" -> UnitSymbols(expr.unit)
    [] expr.op = "milli" -> UnitSymbols(expr.unit)
    [] expr.op = "sym" -> {expr.name}
    [] expr.op = "add" -> SymbolNodes(expr.l) \cup SymbolNodes(expr.r)
    [] expr.op = "mul" -> SymbolNodes(expr.l)
    [] expr.op = "bad" -> {}

analyzeDependencies(expr) == SymbolNodes(expr)

-----------------------------------------------------------------------------
(* Formatting (utils/format.ts).                                           *)

DigitChars == <<"0", "1", "2", "3", "4", "5", "6", "7", "8", "9">>

RECURSIVE Pow10(_)
Pow10(p) == IF p = 0 THEN 1 ELSE 10 * Pow10(p - 1)

RECURSIVE Digits(_)
Digits(n) ==
  IF n < 10 THEN <<DigitChars[n + 1]>>
  ELSE Append(Digits(n \div 10), DigitChars[(n % 10) + 1])

RECURSIVE PadDigits(_, _)
PadDigits(n, width) ==
  IF width = 0 THEN <<>>
  ELSE Append(PadDigits(n \div 10, width - 1), DigitChars[(n % 10) + 1])

\* num/den times a power of ten, rounded half up, by long division: the
\* quotient so far, the remainder, the digits still to produce
RECURSIVE Scaled(_, _, _, _)
Scaled(quotient, remainder, den, digits) ==
  IF digits = 0
  THEN (IF 2 * remainder >= den THEN quotient + 1 ELSE quotient)
  ELSE Scaled(quotient * 10 + (remainder * 10) \div den,
              (remainder * 10) % den, den, digits - 1)

\* Number.prototype.toFixed for the non-negative rational num/den
ToFixed(num, den, precision) ==
  LET scaled == Scaled(num \div den, num % den, den, precision)
      whole  == scaled \div Pow10(precision)
      frac   == scaled % Pow10(precision)
  IN  IF precision = 0 THEN Digits(whole)
      ELSE Digits(whole) \o <<".">> \o PadDigits(frac, precision)

\* variant that strips the zeros at the end of the text wherever they are:
\* x.replace(/\.?0+$/, "")
trimZerosAnywhere(x) ==
  LET nz   == {i \in 1..Len(x) : x[i] # "0"}
      keep == IF nz = {} THEN 0 ELSE CHOOSE i \in nz : \A j \in nz : j <= i
  IN  IF keep = Len(x) \/ keep = 0 THEN x
      ELSE IF x[keep] = "." THEN SubSeq(x, 1, keep - 1)
      ELSE SubSeq(x, 1, keep)

\* x.replace(/(\.\d*?[1-9])0+$/, "$1").replace(/\.0+$/, "")
trimZeros(x) ==
  LET dots == {i \in 1..Len(x) : x[i] = "."}
  IN  IF dots = {} THEN x
      ELSE LET dot  == CHOOSE i \in dots : TRUE
               nz   == {i \in (dot + 1)..Len(x) : x[i] # "0"}
               keep == IF nz = {} THEN dot
                       ELSE CHOOSE i \in nz : \A j \in nz : j <= i
           IN  IF dot = Len(x) THEN x
               ELSE IF nz = {} THEN SubSeq(x, 1, dot - 1)
               ELSE SubSeq(x, 1, keep)

\* variant of the table that has the SI row for both systems
UNIT_SYSTEM_DEFAULTS_Metric(system, dimension) ==
  CASE dimension = "mass" -> "kg"
    [] dimension = "time" -> "s"
    [] dimension = "force" -> "N"
    [] dimension = "flow" -> "m^3/s"
    [] OTHER -> ""

\* UNIT_SYSTEM_DEFAULTS, the rows of the dimensions of the model; "" where
\* the table has no row
UNIT_SYSTEM_DEFAULTS(system, dimension) ==
  CASE dimension = "mass" -> IF system = "SI" THEN "kg" ELSE "lb"
    [] dimension = "time" -> "s"
    [] dimension = "force" -> IF system = "SI" THEN "N" ELSE "lbf"
    [] dimension = "flow" -> IF system = "SI" THEN "m^3/s" ELSE "ft^3/min"
    [] OTHER -> ""

\* value.to(preferred), or the value itself when the conversion throws
ToPreferred(value, converted) ==
  IF converted.ok THEN converted.value ELSE value

normalizeUnitToSystem(value, system) ==
  IF ~IsUnit(value) THEN value
  ELSE IF UNIT_SYSTEM_DEFAULTS(system, Dimension(value.u)) = "" THEN value
  ELSE ToPreferred(value,
         UnitTo(value, UNIT_SYSTEM_DEFAULTS(system, Dimension(value.u))))

FormattedValueParts(magnitude, unit) ==
  IF unit = ""
  THEN [magnitude |-> magnitude, unit |-> "", display |-> magnitude]
  ELSE [magnitude |-> magnitude, unit |-> unit,
        display |-> magnitude \o <<" ", unit>>]

\* Unit.formatUnits of the arithmetic library: a quotient of units is
\* written with a blank on each side of the slash
formatUnits(u) ==
  CASE u = "m^3/s" -> "m^3 / s"
    [] u = "gal/min" -> "gal / min"
    [] u = "ft^3/min" -> "ft^3 / min"
    [] OTHER -> u

formatValueParts(value, precision) ==
  FormattedValueParts(
    trimZeros(ToFixed(value.base, UnitFactor(value.u), precision)),
    formatUnits(value.u))

DisplayOf(displayValue, precision) ==
  [displayValue |-> displayValue,
   formatted |-> formatValueParts(displayValue, precision)]

\* variant of formatForEvaluation that formats under the default settings
\* instead of the active ones
formatForEvaluationDefault(value, system) ==
  DisplayOf(normalizeUnitToSystem(value, "SI"), 4)

formatForEvaluation(value, system) ==
  DisplayOf(normalizeUnitToSystem(value, system), settings.sigFigs)

-----------------------------------------------------------------------------
(* Lines of a calc block, already trimmed and classified by shape.         *)

Blank == [kind |-> "blank"]
Comment(text) == [kind |-> "comment", text |-> text]
Assign(name, expr) == [kind |-> "assignment", name |-> name, expr |-> expr]
Convert(expr, target) == [kind |-> "convert", expr |-> expr, target |-> target]
Expression(expr) == [kind |-> "expression", expr |-> expr]
\* a line that isConvert accepts and splitConvert cannot split: its regular
\* expression has no match when a line terminator other than \n, such as a
\* lone carriage return, comes before the separator ("a\r -> s")
BadConvert == [kind |-> "badconvert"]
\* the message of the exception of splitConvert
BadConvertSyntax == "Bad convert syntax. Use: expr -> unit"
Undefined == [kind |-> "undefined"]

-----------------------------------------------------------------------------
(* Note scopes.                                                            *)

NewScope ==
  [vars |-> EmptyMap, formulas |-> EmptyMap, dependencies |-> EmptyMap,
   dependents |-> EmptyMap, lineCache |-> EmptyMap]

\* variant of getScope that hands out a new scope on every call
getScopeFresh(table, filePath) == MapSet(table, filePath, NewScope)

\* the scope table after getScope(filePath): the scope is created when absent
getScope(table, filePath) ==
  IF MapHas(table, filePath) THEN table ELSE MapSet(table, filePath, NewScope)

\* variant of clearScope that forgets every document
clearScopeEvery(table, filePath) == EmptyMap

\* the scope table after clearScope(filePath)
clearScope(table, filePath) == MapDelete(table, filePath)

\* the store of global constants: a Map, kept in insertion order as a
\* sequence of [name, entry]
GlobalNames(store) == {store[i].name : i \in DOMAIN store}

\* Map.has, Map.get, Map.set (a name that is present keeps its position) and
\* Map.delete on the ordered store
GlobalHas(store, name) == name \in GlobalNames(store)

GlobalGet(store, name) ==
  store[CHOOSE i \in DOMAIN store : store[i].name = name].entry

GlobalSet(store, name, entry) ==
  IF GlobalHas(store, name)
  THEN [i \in DOMAIN store |->
          IF store[i].name = name THEN [name |-> name, entry |-> entry]
          ELSE store[i]]
  ELSE Append(store, [name |-> name, entry |-> entry])

GlobalDelete(store, name) ==
  SelectSeq(store, LAMBDA item : item.name # name)

\* the store as a map from name to entry
GlobalMap(store) == [name \in GlobalNames(store) |-> GlobalGet(store, name)]

\* variant of the binding in which a global constant hides the scope's
\* variable of the same name
EvaluationScopeGlobalsLast(globals, scope) ==
  [k \in (DOMAIN globals) \cup (DOMAIN scope.vars) |->
     IF MapHas(globals, k) THEN globals[k].value ELSE scope.vars[k].value]

\* the binding of evalExpression: the globals, overlaid by the scope's variables
EvaluationScope(globals, scope) ==
  [k \in (DOMAIN globals) \cup (DOMAIN scope.vars) |->
     IF MapHas(scope.vars, k) THEN scope.vars[k].value ELSE globals[k].value]

evalExpression(expr, scope) ==
  MathEvaluate(expr,
    EvaluationScope(IF settings.globalVarsEnabled THEN GlobalMap(globalVars)
                    ELSE EmptyMap,
                    scope))

\* what evaluateLine hands back: a result and the scope it leaves, or a throw
Returned(scope, result, evaluated) ==
  [ok |-> TRUE, scope |-> scope, evaluated |-> evaluated, result |-> result]

Thrown(scope, error) ==
  [ok |-> FALSE, scope |-> scope, evaluated |-> TRUE, error |-> error]

VarEntry(value, formatted, sourceLine) ==
  [value |-> value, display |-> formatted.display,
   magnitude |-> formatted.magnitude, unit |-> formatted.unit,
   sourceLine |-> sourceLine]

\* variant of the assignment branch that stores the value as it is displayed,
\* converted to the preferred unit of the system
AssignmentResultNormalized(line, scope, sourceLine, value, f) ==
  Returned([scope EXCEPT !.vars =
              MapSet(@, line.name,
                     VarEntry(f.displayValue, f.formatted, sourceLine))],
           [kind |-> "assignment", name |-> line.name, expr |-> line.expr,
            value |-> f.displayValue, displayValue |-> f.displayValue,
            display |-> f.formatted.display],
           TRUE)

AssignmentResult(line, scope, sourceLine, value, f) ==
  Returned([scope EXCEPT !.vars =
              MapSet(@, line.name, VarEntry(value, f.formatted, sourceLine))],
           [kind |-> "assignment", name |-> line.name, expr |-> line.expr,
            value |-> value, displayValue |-> f.displayValue,
            display |-> f.formatted.display],
           TRUE)

\* variant of the assignment branch that reuses the stored Variable when the
\* stored formula is the expression of the line
EvaluateAssignmentStored(line, scope, system, sourceLine, r) ==
  IF /\ MapHas(scope.vars, line.name) /\ MapHas(scope.formulas, line.name)
     /\ scope.formulas[line.name] = line.expr
  THEN Returned(scope,
                [kind |-> "assignment", name |-> line.name, expr |-> line.expr,
                 value |-> scope.vars[line.name].value,
                 displayValue |-> scope.vars[line.name].value,
                 display |-> scope.vars[line.name].display],
                FALSE)
  ELSE IF ~r.ok THEN Thrown(scope, r.error)
  ELSE AssignmentResult(line, scope, sourceLine, r.value,
                        formatForEvaluation(r.value, system))

\* variant of the assignment branch in which a failure takes the variable out
\* of the scope
EvaluateAssignmentDropping(line, scope, system, sourceLine, r) ==
  IF ~r.ok
  THEN Thrown([scope EXCEPT !.vars = MapDelete(@, line.name)], r.error)
  ELSE AssignmentResult(line, scope, sourceLine, r.value,
                        formatForEvaluation(r.value, system))

EvaluateAssignment(line, scope, system, sourceLine, r) ==
  IF ~r.ok THEN Thrown(scope, r.error)
  ELSE AssignmentResult(line, scope, sourceLine, r.value,
                        formatForEvaluation(r.value, system))

ConversionResult(line, scope, converted, formatted) ==
  Returned(scope,
           [kind |-> "conversion", expr |-> line.expr, target |-> line.target,
            value |-> converted, displayValue |-> converted,
            display |-> formatted.display],
           TRUE)

Converted(line, scope, c) ==
  IF ~c.ok THEN Thrown(scope, c.error)
  ELSE ConversionResult(line, scope, c.value,
                        formatValueParts(c.value, settings.sigFigs))

EvaluateConversion(line, scope, original) ==
  IF ~original.ok THEN Thrown(scope, original.error)
  ELSE IF IsUnit(original.value)
       THEN Converted(line, scope, UnitTo(original.value, line.target))
       ELSE Converted(line, scope, original)

ExpressionResult(line, scope, value, f) ==
  Returned(scope,
           [kind |-> "expression", expr |-> line.expr, value |-> value,
            displayValue |-> f.displayValue, display |-> f.formatted.display],
           TRUE)

EvaluateExpression(line, scope, system, r) ==
  IF ~r.ok THEN Thrown(scope, r.error)
  ELSE ExpressionResult(line, scope, r.value,
                        formatForEvaluation(r.value, system))

evaluateLine(line, scope, system, sourceLine) ==
  CASE line.kind = "comment" ->
         Returned(scope, [kind |-> "comment", text |-> line.text], FALSE)
    [] line.kind = "assignment" ->
         EvaluateAssignment(line, scope, system, sourceLine,
                            evalExpression(line.expr, scope))
    [] line.kind = "convert" ->
         EvaluateConversion(line, scope, evalExpression(line.expr, scope))
    [] line.kind = "badconvert" ->
         Thrown(scope, BadConvertSyntax)
    [] line.kind = "expression" ->
         EvaluateExpression(line, scope, system,
                            evalExpression(line.expr, scope))

\* the dependents map without name under the dependencies it no longer has
RemoveDependent(dependents, dep, name) ==
  IF ~MapHas(dependents, dep) THEN dependents
  ELSE IF dependents[dep] \ {name} = {} THEN MapDelete(dependents, dep)
  ELSE MapSet(dependents, dep, dependents[dep] \ {name})

RECURSIVE PruneDependents(_, _, _)
PruneDependents(dependents, name, stale) ==
  IF stale = {} THEN dependents
  ELSE PruneDependents(
         RemoveDependent(dependents, CHOOSE d \in stale : TRUE, name),
         name, stale \ {CHOOSE d \in stale : TRUE})

AddDependents(dependents, name, dependencies) ==
  [d \in (DOMAIN dependents) \cup dependencies |->
     IF d \in dependencies
     THEN (IF MapHas(dependents, d) THEN dependents[d] ELSE {}) \cup {name}
     ELSE dependents[d]]

PreviousDependencies(scope, name) ==
  IF MapHas(scope.dependencies, name) THEN scope.dependencies[name] ELSE {}

\* variant of updateDependencyGraph that leaves stale reverse edges in place
updateDependencyGraphUnpruned(scope, name, expr, dependencies) ==
  [scope EXCEPT
     !.dependents = AddDependents(@, name, dependencies),
     !.dependencies = MapSet(@, name, dependencies),
     !.formulas = MapSet(@, name, expr)]

\* variant of updateDependencyGraph that drops the reverse edge of every
\* previous dependency, kept or not
updateDependencyGraphOverpruned(scope, name, expr, dependencies) ==
  [scope EXCEPT
     !.dependents = PruneDependents(AddDependents(@, name, dependencies),
                                    name, PreviousDependencies(scope, name)),
     !.dependencies = MapSet(@, name, dependencies),
     !.formulas = MapSet(@, name, expr)]

updateDependencyGraph(scope, name, expr, dependencies) ==
  [scope EXCEPT
     !.dependents = AddDependents(
        PruneDependents(@, name, PreviousDependencies(scope, name) \ dependencies),
        name, dependencies),
     !.dependencies = MapSet(@, name, dependencies),
     !.formulas = MapSet(@, name, expr)]

-----------------------------------------------------------------------------
(* Inputs: the documents, the blocks and the inline statements evaluated.  *)

Paths == {"d1"}

\* ctx.docId values: none, or the id of the rendered view
NoDocId == ""
DocIds == {NoDocId, "v1"}

a1    == Assign("a", ENum(1))
a2    == Assign("a", ENum(2))
a5kg  == Assign("a", EQty(5, "kg"))
a90s  == Assign("a", EQty(90, "s"))
bA1   == Assign("b", EAdd(ESym("a"), ENum(1)))
bAu   == Assign("b", EAdd(ESym("a"), ESym("undefinedVar")))
b5    == Assign("b", ENum(5))
cA2   == Assign("c", EMul(ESym("a"), 2))
cB1   == Assign("c", EAdd(ESym("b"), ENum(1)))

Blocks ==
  << <<a1, bA1>>,
     <<a2, bA1>>,
     <<a5kg, bA1>>,
     <<a5kg, bAu, cA2>>,
     <<a1, b5, cB1>>,
     <<a2, b5, cB1>>,
     <<a1, cB1, b5>>,
     <<a2, cB1, b5>>,
     <<Comment("note"), a90s, Blank, Expression(ESym("a")),
       Convert(ESym("a"), "min")>>,
     <<a5kg, Convert(ESym("a"), "s"), BadConvert, Expression(EBad),
       Expression(ESym("q"))>> >>

BlockSet == {Blocks[i] : i \in DOMAIN Blocks}

Statements == {a2, Expression(ESym("b")), Blank}

\* the inputs of the two-document specification
IsoPaths == {"d1", "d2"}
IsoBlocks == {<<a1, bA1>>, <<a2, bA1>>, <<a1, b5, cB1>>}
IsoStatements == {a2, Blank}

\* the unit system samples of the README: the block to evaluate under SI
SampleSI ==
  <<Assign("mass", EQty(2, "lb")), Expression(ESym("mass")), Blank,
    Assign("force", EQty(10, "lbf")), Expression(ESym("force")), Blank,
    Assign("flow", EQty(15, "gal/min")), Expression(ESym("flow"))>>

\* the block to evaluate under US
SampleUS ==
  <<Assign("mass", EQty(5, "kg")), Expression(ESym("mass")), Blank,
    Assign("force", EQty(100, "N")), Expression(ESym("force")), Blank,
    Assign("flow", EMilli(1, "m^3/s")), Expression(ESym("flow"))>>

\* a plain number, a quantity whose dimension has no row in the table, a
\* force, a time, and the time converted
SampleOther ==
  <<Assign("n", ENum(7)), Assign("i", EQty(3, "A")),
    Assign("w", EQty(3, "lbf")),
    Assign("t", EQty(90, "s")), Convert(ESym("t"), "min")>>

\* versions of one block: one that caches its lines 3 and 4 and whose line 2
\* is blank, a shorter one that caches line 2, and one of the same length as
\* the first in which line 2 is a comment, line 3 fails and line 4 assigns
cacheLong  == Blocks[9]
cacheMid   == <<a90s, Blank, Convert(ESym("a"), "min")>>
cacheGone  == <<a90s, Blank, Comment("note"), Expression(ESym("q")), b5>>

\* every text that is evaluated as a block
Texts ==
  Blocks \o <<SampleSI, SampleUS, SampleOther, <<bA1>>, cacheMid, cacheGone>>

\* hashString(source), a token that identifies the text
hashString(source) ==
  <<"#">> \o Digits(CHOOSE i \in DOMAIN Texts : Texts[i] = source)

buildBlockKey(filePath, docId, source) ==
  IF docId # NoDocId THEN <<docId>>
  ELSE <<filePath, ":">> \o hashString(source)

LineKey(blockKey, index) == blockKey \o <<":">> \o Digits(index)

StartsWith(s, prefix) ==
  Len(s) >= Len(prefix) /\ SubSeq(s, 1, Len(prefix)) = prefix

-----------------------------------------------------------------------------
(* Block evaluation.                                                       *)

\* what one iteration of lines.forEach leaves: thrown is the message of an
\* exception that left the callback, "" when none did
Step(scope, evaluated, entry) ==
  [scope |-> scope, evaluated |-> evaluated, entry |-> entry, thrown |-> ""]

LineCacheEntry(result, type) ==
  IF type = "convert"
  THEN [expr |-> result.expr, value |-> result.value, display |-> result.display,
        dependencies |-> analyzeDependencies(result.expr), type |-> type,
        targetUnit |-> result.target]
  ELSE [expr |-> result.expr, value |-> result.value, display |-> result.display,
        dependencies |-> analyzeDependencies(result.expr), type |-> type]

\* the try block of lines.forEach, for a result r of evaluateLine
EntryOfResult(raw, lineKey, r) ==
  CASE r.result.kind = "comment" ->
         Step(r.scope, r.evaluated,
              [raw |-> raw, type |-> "comment", text |-> r.result.text])
    [] r.result.kind = "assignment" ->
         Step(updateDependencyGraph(r.scope, r.result.name, r.result.expr,
                                    analyzeDependencies(r.result.expr)),
              r.evaluated,
              [raw |-> raw, type |-> "assignment", name |-> r.result.name,
               expr |-> r.result.expr, value |-> r.result.value,
               display |-> r.result.display])
    [] r.result.kind = "conversion" ->
         Step([r.scope EXCEPT !.lineCache =
                 MapSet(@, lineKey, LineCacheEntry(r.result, "convert"))],
              r.evaluated,
              [raw |-> raw, type |-> "convert", expr |-> r.result.expr,
               target |-> r.result.target, value |-> r.result.value,
               display |-> r.result.display])
    [] r.result.kind = "expression" ->
         Step([r.scope EXCEPT !.lineCache =
                 MapSet(@, lineKey, LineCacheEntry(r.result, "expression"))],
              r.evaluated,
              [raw |-> raw, type |-> "expression", expr |-> r.result.expr,
               value |-> r.result.value, display |-> r.result.display])

\* variant of the body of lines.forEach without its catch clause: the
\* exception of a line leaves the callback
EntryOfUncaught(raw, lineKey, r) ==
  IF ~r.ok
  THEN [scope |-> r.scope, evaluated |-> r.evaluated,
        entry |-> [raw |-> raw, type |-> "error", error |-> r.error],
        thrown |-> r.error]
  ELSE EntryOfResult(raw, lineKey, r)

\* the try and catch of lines.forEach, for the outcome r of evaluateLine
EntryOf(raw, lineKey, r) ==
  IF ~r.ok
  THEN Step(r.scope, r.evaluated,
            [raw |-> raw, type |-> "error", error |-> r.error])
  ELSE EntryOfResult(raw, lineKey, r)

\* one iteration of lines.forEach in evaluateToEntries, for lines[index]
EvaluateEntry(raw, index, workingScope, system, blockKey) ==
  IF raw.kind = "blank"
  THEN Step(workingScope, FALSE, [raw |-> raw, type |-> "blank"])
  ELSE EntryOf(raw, LineKey(blockKey, index),
               evaluateLine(raw, workingScope, system, raw))

Pass(scope, entries, evaluated) ==
  [scope |-> scope, entries |-> entries, evaluated |-> evaluated,
   thrown |-> ""]

Accumulate(acc, step) ==
  IF step.thrown # ""
  THEN [scope |-> step.scope, entries |-> acc.entries,
        evaluated |-> Append(acc.evaluated, step.evaluated),
        thrown |-> step.thrown]
  ELSE Pass(step.scope, Append(acc.entries, step.entry),
            Append(acc.evaluated, step.evaluated))

\* variant of lines.forEach that evaluates the last line first: a line is
\* evaluated against the scope that the lines after it have left
PrependStep(rest, step) ==
  [scope |-> step.scope, entries |-> <<step.entry>> \o rest.entries,
   evaluated |-> <<step.evaluated>> \o rest.evaluated, thrown |-> ""]

RECURSIVE ForEachLineBackwards(_, _, _, _, _)
ForEachLineBackwards(lines, index, acc, system, blockKey) ==
  IF index >= Len(lines) THEN acc
  ELSE PrependStep(
         ForEachLineBackwards(lines, index + 1, acc, system, blockKey),
         EvaluateEntry(lines[index + 1], index,
                       ForEachLineBackwards(lines, index + 1, acc, system,
                                            blockKey).scope,
                       system, blockKey))

\* variant of lines.forEach that stops at the first line that fails
RECURSIVE ForEachLineUntilError(_, _, _, _, _)
ForEachLineUntilError(lines, index, acc, system, blockKey) ==
  IF index >= Len(lines) \/ acc.thrown # "" THEN acc
  ELSE IF index > 0 /\ acc.entries[index].type = "error" THEN acc
  ELSE ForEachLineUntilError(lines, index + 1,
         Accumulate(acc, EvaluateEntry(lines[index + 1], index, acc.scope,
                                       system, blockKey)),
         system, blockKey)

\* lines.forEach: the lines from index on, in source order
RECURSIVE ForEachLine(_, _, _, _, _)
ForEachLine(lines, index, acc, system, blockKey) ==
  IF index >= Len(lines) \/ acc.thrown # "" THEN acc
  ELSE ForEachLine(lines, index + 1,
         Accumulate(acc, EvaluateEntry(lines[index + 1], index, acc.scope,
                                       system, blockKey)),
         system, blockKey)

VisitedLineKeys(blockKey, lineCount) ==
  {LineKey(blockKey, i) : i \in 0..(lineCount - 1)}

\* variant of the pruning loop that deletes nothing
PruneLineCacheNone(lineCache, blockKey, lineCount) == lineCache

\* the line cache without the entries of the block that were not visited
PruneLineCache(lineCache, blockKey, lineCount) ==
  [key \in {k \in DOMAIN lineCache :
              ~(/\ StartsWith(k, blockKey \o <<":">>)
                /\ k \notin VisitedLineKeys(blockKey, lineCount))} |->
     lineCache[key]]

\* what evaluateToEntries leaves; start is the working scope as it was before
\* the first line was evaluated
Evaluated(table, filePath, scope, pass) ==
  [table |-> MapSet(table, filePath, scope), entries |-> pass.entries,
   evaluated |-> pass.evaluated, scope |-> scope, thrown |-> pass.thrown,
   start |-> table[filePath]]

\* an exception that left lines.forEach leaves evaluateToEntries before the
\* line cache is pruned
Pruned(table, filePath, pass, blockKey, lineCount) ==
  IF pass.thrown # "" THEN Evaluated(table, filePath, pass.scope, pass)
  ELSE Evaluated(table, filePath,
                 [pass.scope EXCEPT
                    !.lineCache = PruneLineCache(@, blockKey, lineCount)],
                 pass)

EvaluateIn(table, source, filePath, blockKey) ==
  Pruned(table, filePath,
         ForEachLine(source, 0, Pass(table[filePath], <<>>, <<>>),
                     settings.defaultUnitSystem, blockKey),
         blockKey, Len(source))

\* variant of evaluateToEntries that never resets the scope
evaluateToEntriesKeeping(table, source, filePath, resetScope, blockKey) ==
  EvaluateIn(getScope(table, filePath), source, filePath, blockKey)

\* evaluateToEntries with persist true: the scope table, the entries, the scope
evaluateToEntries(table, source, filePath, resetScope, blockKey) ==
  EvaluateIn(getScope(IF resetScope THEN clearScope(table, filePath) ELSE table,
                      filePath),
             source, filePath, blockKey)

\* options.scope.vars.clear(): the reset of a scope that the caller supplies
ClearVars(scope) == [scope EXCEPT !.vars = EmptyMap]

\* the working scope of evaluateToEntries with persist false: the caller's
\* scope (supplied) or a new one
WorkingScope(scope, supplied, resetScope) ==
  IF supplied THEN (IF resetScope THEN ClearVars(scope) ELSE scope)
  ELSE NewScope

\* evaluateToEntries with persist false: the engine's table is not involved
evaluateToEntriesDetached(scope, source, filePath, supplied, resetScope, blockKey) ==
  EvaluateIn(MapSet(EmptyMap, filePath,
                    WorkingScope(scope, supplied, resetScope)),
             source, filePath, blockKey)

\* what a call of evaluateToEntries leaves and returns: engine is the
\* engine's scope table after the call, notified whether handleScopeChanged
\* was called, which clearScope does when it has removed a scope
Persisting(table, filePath, resetScope, r) ==
  [engine |-> r.table, notified |-> resetScope /\ MapHas(table, filePath),
   scope |-> r.scope, entries |-> r.entries, evaluated |-> r.evaluated,
   thrown |-> r.thrown, start |-> r.start]

Local(table, r) ==
  [engine |-> table, notified |-> FALSE,
   scope |-> r.scope, entries |-> r.entries, evaluated |-> r.evaluated,
   thrown |-> r.thrown, start |-> r.start]

\* variant of evaluateToEntries that ignores the persist option and works on
\* the scope of the document
evaluateToEntriesPersisting(table, persist, scope, source, filePath, supplied, resetScope, blockKey) ==
  Persisting(table, filePath, resetScope,
             evaluateToEntries(table, source, filePath, resetScope, blockKey))

\* evaluateToEntries with its options: persist, scope (supplied or not),
\* resetScope and blockKey
evaluateToEntriesWith(table, persist, scope, source, filePath, supplied, resetScope, blockKey) ==
  IF persist
  THEN Persisting(table, filePath, resetScope,
                  evaluateToEntries(table, source, filePath, resetScope,
                                    blockKey))
  ELSE Local(table,
             evaluateToEntriesDetached(scope, source, filePath, supplied,
                                       resetScope, blockKey))

-----------------------------------------------------------------------------
(* The global constants.  The store is a Map, kept here in insertion order *)
(* as a sequence of [name, entry]; the data file keeps the same order.     *)
(* Names are sequences of characters, so that trim and the identifier      *)
(* pattern act on them; the values are those of number expressions.        *)

\* the characters of the model that \s matches; the carriage return is also
\* a line terminator, which . does not match
WhiteSpace == {" ", "\r"}

LineTerminators == {"\r"}

\* String.trim, which removes white space and line terminators
RECURSIVE TrimStart(_)
TrimStart(chars) ==
  IF chars # <<>> /\ Head(chars) \in WhiteSpace
  THEN TrimStart(Tail(chars)) ELSE chars

RECURSIVE TrimEnd(_)
TrimEnd(chars) ==
  IF chars # <<>> /\ chars[Len(chars)] \in WhiteSpace
  THEN TrimEnd(SubSeq(chars, 1, Len(chars) - 1))
  ELSE chars

Trim(chars) == TrimEnd(TrimStart(chars))

\* the string that a sequence of characters spells
RECURSIVE Text(_)
Text(chars) == IF chars = <<>> THEN "" ELSE Head(chars) \o Text(Tail(chars))

\* the letters and digits that occur in the names of the model
Letters == {"a", "g", "x", "t", "o"}

DigitSet == {DigitChars[i] : i \in DOMAIN DigitChars}

\* /^[A-Za-z_][A-Za-z0-9_]*$/
isValidIdentifier(chars) ==
  /\ chars # <<>>
  /\ chars[1] \in Letters \cup {"_"}
  /\ \A i \in 2..Len(chars) : chars[i] \in Letters \cup DigitSet \cup {"_"}

\* String.slice(from, to) with positions counted from 1, both included
Slice(chars, from, to) ==
  IF from > to THEN <<>> ELSE SubSeq(chars, from, to)

AllIn(chars, from, to, set) == \A i \in from..to : chars[i] \in set

NoneIn(chars, from, to, set) == \A i \in from..to : chars[i] \notin set

\* the ends i of an identifier that starts the line: /^[A-Za-z_][A-Za-z0-9_]*/
IdentifierEnds(line) ==
  {i \in 1..Len(line) : isValidIdentifier(SubSeq(line, 1, i))}

\* /^[A-Za-z_][A-Za-z0-9_]*\s*=\s*.+$/ : an identifier that ends at i, white
\* space, the sign at j, white space up to k, and at least one character,
\* none of them a line terminator, up to the end
isAssignment(line) ==
  \E i \in IdentifierEnds(line) : \E j \in (i + 1)..Len(line) :
    /\ AllIn(line, i + 1, j - 1, WhiteSpace)
    /\ line[j] = "="
    /\ \E k \in j..(Len(line) - 1) :
         /\ AllIn(line, j + 1, k, WhiteSpace)
         /\ NoneIn(line, k + 1, Len(line), LineTerminators)

\* String.indexOf("="), for a line that has the sign
IndexOfEquals(line) ==
  CHOOSE i \in 1..Len(line) :
    line[i] = "=" /\ \A j \in 1..(i - 1) : line[j] # "="

splitAssignment(line) ==
  [name |-> Trim(Slice(line, 1, IndexOfEquals(line) - 1)),
   expr |-> Trim(Slice(line, IndexOfEquals(line) + 1, Len(line)))]

\* the two separators of a conversion
Separators == {<<"-", ">">>, <<"t", "o">>}

\* the positions p of a white space that a separator and a white space
\* follow: the matches of /\s(->|to)\s/
SeparatorsAt(line) ==
  {p \in 1..(Len(line) - 3) :
     /\ line[p] \in WhiteSpace
     /\ SubSeq(line, p + 1, p + 2) \in Separators
     /\ line[p + 3] \in WhiteSpace}

isConvert(line) == SeparatorsAt(line) # {}

\* the matches of /^(.*)\s(?:->|to)\s(.*?)$/ : a separator with no line
\* terminator in the text before its white space nor in the text after
SplitsAt(line) ==
  {p \in SeparatorsAt(line) :
     /\ NoneIn(line, 1, p - 1, LineTerminators)
     /\ NoneIn(line, p + 4, Len(line), LineTerminators)}

Least(set) == CHOOSE p \in set : \A q \in set : p <= q

Greatest(set) == CHOOSE p \in set : \A q \in set : q <= p

SplitAt(line, p) ==
  [ok |-> TRUE, expr |-> Trim(Slice(line, 1, p - 1)),
   target |-> Trim(Slice(line, p + 4, Len(line)))]

\* variant of splitConvert whose first group is not greedy
splitConvertFirst(line) ==
  IF SplitsAt(line) = {} THEN [ok |-> FALSE, error |-> BadConvertSyntax]
  ELSE SplitAt(line, Least(SplitsAt(line)))

\* splitConvert: the first group is greedy, so the match is the one with the
\* longest text before the separator
splitConvert(line) ==
  IF SplitsAt(line) = {} THEN [ok |-> FALSE, error |-> BadConvertSyntax]
  ELSE SplitAt(line, Greatest(SplitsAt(line)))

\* the parser of the arithmetic library on a text that begins or ends with a
\* separator: "->" is read as a minus and a comparison, "to" is a delimiter,
\* and neither stands for a value; "" for the other texts, of which the
\* model says nothing. The library adds the position to the message
ParseError(text) ==
  IF \/ StartsWith(text, <<"-", ">">>)
     \/ text = <<"t", "o">>
     \/ StartsWith(text, <<"t", "o", " ">>)
     \/ (Len(text) >= 2 /\ SubSeq(text, Len(text) - 1, Len(text)) = <<"-", ">">>)
  THEN "Value expected"
  ELSE IF Len(text) >= 3
          /\ SubSeq(text, Len(text) - 2, Len(text)) = <<" ", "t", "o">>
       THEN "Unexpected end of expression"
       ELSE ""

\* evaluateLine on the text of a line, up to the evaluation of its
\* expression: the kind and the parts of the line, and the message of the
\* exception that splitConvert or the parser throws
ClassifiedLine(kind, name, expr, target, error) ==
  [kind |-> kind, name |-> name, expr |-> expr, target |-> target,
   error |-> error]

ConvertLine(line, split) ==
  IF ~split.ok THEN ClassifiedLine("convert", <<>>, <<>>, <<>>, split.error)
  ELSE ClassifiedLine("convert", <<>>, split.expr, split.target,
                      ParseError(split.expr))

AssignmentLine(line, split) ==
  ClassifiedLine("assignment", split.name, split.expr, <<>>,
                 ParseError(split.expr))

evaluateLineText(line) ==
  IF StartsWith(line, <<"/", "/">>) \/ StartsWith(line, <<"#">>)
  THEN ClassifiedLine("comment", <<>>, <<>>, <<>>, "")
  ELSE IF isAssignment(line) THEN AssignmentLine(line, splitAssignment(line))
  ELSE IF isConvert(line) THEN ConvertLine(line, splitConvert(line))
  ELSE ClassifiedLine("expression", <<>>, line, <<>>, ParseError(line))

\* an expression text that is empty once trimmed
EmptySource == [op |-> "empty"]

\* buildGlobalEvalScope(skip): the values of all constants but skip
buildGlobalEvalScope(store, skip) ==
  [name \in GlobalNames(store) \ {skip} |-> GlobalGet(store, name).value]

\* formatForDisplay(value, system): the value normalized to the unit system,
\* its magnitude in fixed decimals with the trailing zeros trimmed, its unit
formatForDisplay(value, system) ==
  formatValueParts(normalizeUnitToSystem(value, system), settings.sigFigs)

GlobalVarEntry(value, formatted, source) ==
  [value |-> value, display |-> formatted.display,
   magnitude |-> formatted.magnitude, unit |-> formatted.unit,
   source |-> source]

toGlobalEntry(entry) ==
  [value |-> entry.value, display |-> entry.display,
   magnitude |-> entry.magnitude, unit |-> entry.unit,
   source |-> entry.source]

\* serializeGlobalVars: the entries in the order of the store
serializeGlobalVars(store) ==
  [i \in DOMAIN store |->
     [name |-> store[i].name, entry |-> toGlobalEntry(store[i].entry)]]

\* the order of localeCompare on the names of the model
NameOrder == <<"a", "g">>

NameRank(name) == CHOOSE i \in DOMAIN NameOrder : NameOrder[i] = name

\* Array.sort by name
RECURSIVE SortByName(_)
SortByName(items) ==
  IF items = <<>> THEN <<>>
  ELSE LET first == CHOOSE i \in DOMAIN items :
                      \A j \in DOMAIN items :
                        NameRank(items[i].name) <= NameRank(items[j].name)
       IN  <<items[first]>> \o
           SortByName([k \in 1..(Len(items) - 1) |->
                         IF k < first THEN items[k] ELSE items[k + 1]])

\* getGlobalVarsSnapshot
getGlobalVarsSnapshot(store) == SortByName(serializeGlobalVars(store))

\* what upsertGlobalVar leaves: the store and the message of its exception,
\* "" when it returns
Rejected(store, error) == [store |-> store, error |-> error]

Upserted(store, name, source, value) ==
  [store |-> GlobalSet(store, name,
                       GlobalVarEntry(value,
                                      formatForDisplay(value,
                                        settings.defaultUnitSystem),
                                      source)),
   error |-> ""]

\* variant of upsertGlobalVar that drops the stored constant when the
\* evaluation of the new expression fails
UpsertEvaluatedDropping(store, name, source, r) ==
  IF r.ok THEN Upserted(store, name, source, r.value)
  ELSE Rejected(GlobalDelete(store, name), r.error)

UpsertEvaluated(store, name, source, r) ==
  IF r.ok THEN Upserted(store, name, source, r.value)
  ELSE Rejected(store, r.error)

\* variant of upsertGlobalVar that evaluates against every constant, the one
\* of the same name included
upsertIncludingSelf(store, trimmedName, trimmedSource) ==
  IF trimmedName = <<>> THEN Rejected(store, "Name is required")
  ELSE IF ~isValidIdentifier(trimmedName)
  THEN Rejected(store, "Invalid variable name")
  ELSE IF trimmedSource = EmptySource
  THEN Rejected(store, "Expression is required")
  ELSE UpsertEvaluated(store, Text(trimmedName), trimmedSource,
         MathEvaluate(trimmedSource, buildGlobalEvalScope(store, "")))

\* upsertGlobalVar up to the save, for the trimmed name and the trimmed text
upsert(store, trimmedName, trimmedSource) ==
  IF trimmedName = <<>> THEN Rejected(store, "Name is required")
  ELSE IF ~isValidIdentifier(trimmedName)
  THEN Rejected(store, "Invalid variable name")
  ELSE IF trimmedSource = EmptySource
  THEN Rejected(store, "Expression is required")
  ELSE UpsertEvaluated(store, Text(trimmedName), trimmedSource,
         MathEvaluate(trimmedSource,
                      buildGlobalEvalScope(store, Text(trimmedName))))

\* the entry that loadGlobalVars sets for a persisted entry, r being the
\* outcome of evaluating its source
LoadedEntry(entry, r) ==
  IF entry.source = EmptySource
  THEN GlobalVarEntry(entry.value,
                      formatForDisplay(entry.value, settings.defaultUnitSystem),
                      entry.source)
  ELSE IF r.ok
  THEN GlobalVarEntry(r.value,
                      formatForDisplay(r.value, settings.defaultUnitSystem),
                      entry.source)
  ELSE [value |-> entry.value, display |-> entry.display,
        magnitude |-> entry.magnitude, unit |-> entry.unit,
        source |-> entry.source]

\* variant of the loop of loadGlobalVars that ends at the first entry whose
\* source does not evaluate
RECURSIVE LoadEachAborting(_, _, _)
LoadEachAborting(entries, index, store) ==
  IF index > Len(entries) THEN store
  ELSE IF /\ entries[index].entry.source # EmptySource
          /\ ~MathEvaluate(entries[index].entry.source,
                buildGlobalEvalScope(store, entries[index].name)).ok
  THEN store
  ELSE LoadEachAborting(entries, index + 1,
         GlobalSet(store, entries[index].name,
           LoadedEntry(entries[index].entry,
             IF entries[index].entry.source = EmptySource THEN Err("")
             ELSE MathEvaluate(entries[index].entry.source,
                    buildGlobalEvalScope(store, entries[index].name)))))

\* the loop of loadGlobalVars: the persisted entries from index on, in order,
\* each evaluated against the entries set so far
RECURSIVE LoadEach(_, _, _)
LoadEach(entries, index, store) ==
  IF index > Len(entries) THEN store
  ELSE LoadEach(entries, index + 1,
         GlobalSet(store, entries[index].name,
           LoadedEntry(entries[index].entry,
             IF entries[index].entry.source = EmptySource THEN Err("")
             ELSE MathEvaluate(entries[index].entry.source,
                    buildGlobalEvalScope(store, entries[index].name)))))

\* loadGlobalVars(entries): the store is cleared first
loadEntries(entries) == LoadEach(entries, 1, <<>>)

-----------------------------------------------------------------------------
(* The engine's operations.                                                *)

Differing(before, after) == {i \in 1..Len(after) : before[i] # after[i]}

SameTarget(x, y) ==
  x.kind = "assignment" /\ y.kind = "assignment" /\ x.name = y.name

\* the line that is the only difference between two texts, when it assigns
\* the same name in both; 0 otherwise
ChangedLine(before, after) ==
  IF Len(before) # Len(after) \/ Cardinality(Differing(before, after)) # 1
  THEN 0
  ELSE IF \A i \in Differing(before, after) : SameTarget(before[i], after[i])
       THEN CHOOSE i \in Differing(before, after) : TRUE
       ELSE 0

\* whether a call is a block evaluation that comes right after another block
\* evaluation of the same document
Follows(op, filePath) ==
  op = "evaluateBlock" /\ last.op = "evaluateBlock" /\ last.filePath = filePath

\* whether every map of a scope is empty
IsClean(scope) ==
  /\ scope.vars = EmptyMap
  /\ scope.formulas = EmptyMap
  /\ scope.dependencies = EmptyMap
  /\ scope.dependents = EmptyMap
  /\ scope.lineCache = EmptyMap

\* history of a call: what was asked, what it returned, and how the text
\* relates to the text of the call just before it (follows: a block of the
\* same document; repeated: the same block with the same text; changed: the
\* same block with one assignment rewritten); commanded: a block evaluation
\* that the recalculation command started; reset: the resetScope option;
\* clean: whether the working scope was empty before the first line; error:
\* the message of the exception that left the call, "" when it returned;
\* persisted: whether the call saved the data file; name: the trimmed name
\* of the constant an operation of the global store was given; restyled: of
\* a change of the unit system or precision, that it came right after a block
\* evaluation (whose path, id and text it keeps) and changed the setting, and
\* of a block evaluation, that it evaluates that same text right after;
\* cached: the keys of the line cache of the working scope before the first
\* line of an evaluation was evaluated; notified: of a call of
\* evaluateToEntries by a caller of its own, whether the call made the engine
\* call handleScopeChanged
Call(op, filePath, source, docId, entries, evaluated) ==
  [op |-> op, filePath |-> filePath, source |-> source, docId |-> docId,
   entries |-> entries, evaluated |-> evaluated,
   follows |-> Follows(op, filePath),
   repeated |-> Follows(op, filePath) /\ last.docId = docId
                  /\ last.source = source,
   changed |-> IF Follows(op, filePath) /\ last.docId = docId
               THEN ChangedLine(last.source, source) ELSE 0,
   commanded |-> op = "evaluateBlock" /\ last.op = "recalculateActiveNote"
                   /\ last.filePath = filePath,
   restyled |-> /\ op = "evaluateBlock" /\ last.restyled
                /\ last.filePath = filePath /\ last.docId = docId
                /\ last.source = source,
   reset |-> FALSE, clean |-> FALSE, error |-> "", persisted |-> FALSE,
   name |-> <<>>, cached |-> {}, notified |-> FALSE]

\* the calls in flight: at most MaxCalls at a time; running is the call
\* whose synchronous code has begun and not yet reached an await or its end
MaxCalls == 2

CallIds == 1..MaxCalls

NoCall == 0

Idle == [op |-> "", state |-> "idle"]

\* the saves of the data file that are under way: the calls that await one,
\* in the order in which the saves were started; inOrder: whether every save
\* done since none was under way was the oldest one then; overlapped:
\* whether one was started while another was under way since then
NoSaves == [order |-> <<>>, inOrder |-> TRUE, overlapped |-> FALSE]

SaveStarted(saves, id) ==
  IF saves.order = <<>>
  THEN [order |-> <<id>>, inOrder |-> TRUE, overlapped |-> FALSE]
  ELSE [order |-> Append(saves.order, id), inOrder |-> saves.inOrder,
        overlapped |-> TRUE]

SaveDone(saves, id) ==
  [order |-> SelectSeq(saves.order, LAMBDA other : other # id),
   inOrder |-> saves.inOrder /\ Head(saves.order) = id,
   overlapped |-> saves.overlapped]

NoCalls ==
  [running |-> NoCall, pool |-> [id \in CallIds |-> Idle], saves |-> NoSaves]

Init ==
  /\ scopes = EmptyMap
  /\ settings = [autoRecalc |-> TRUE, defaultUnitSystem |-> "SI", sigFigs |-> 4,
                 globalVarsEnabled |-> FALSE]
  /\ globalVars = EmptyMap
  /\ saved = EmptyMap
  /\ working = NewScope
  /\ calls = NoCalls
  /\ last = [op |-> "init", filePath |-> "", source |-> <<>>, docId |-> NoDocId,
             entries |-> <<>>, evaluated |-> <<>>, follows |-> FALSE,
             repeated |-> FALSE, changed |-> 0, commanded |-> FALSE,
             restyled |-> FALSE, reset |-> FALSE, clean |-> FALSE, error |-> "",
             persisted |-> FALSE, name |-> <<>>, cached |-> {},
             notified |-> FALSE]

\* evaluateBlock of the earlier version of the engine, which cleared the scope
\* when automatic recalculation was off
evaluateBlockEarlier(filePath, source, docId) ==
  LET r == evaluateToEntries(scopes, source, filePath, ~settings.autoRecalc,
                             buildBlockKey(filePath, docId, source))
  IN  /\ scopes' = r.table
      /\ last' = [Call("evaluateBlock", filePath, source, docId,
                       r.entries, r.evaluated)
                    EXCEPT !.reset = ~settings.autoRecalc, !.clean = IsClean(r.start),
                           !.error = r.thrown,
                           !.cached = DOMAIN r.start.lineCache]
      /\ UNCHANGED <<settings, globalVars, saved, working, calls>>

evaluateBlock(filePath, source, docId) ==
  LET r == evaluateToEntries(scopes, source, filePath, settings.autoRecalc,
                             buildBlockKey(filePath, docId, source))
  IN  /\ scopes' = r.table
      /\ last' = [Call("evaluateBlock", filePath, source, docId,
                       r.entries, r.evaluated)
                    EXCEPT !.reset = settings.autoRecalc, !.clean = IsClean(r.start),
                           !.error = r.thrown,
                           !.cached = DOMAIN r.start.lineCache]
      /\ UNCHANGED <<settings, globalVars, saved, working, calls>>

InlineEntry(r) ==
  IF r.ok THEN r.result ELSE [kind |-> "error", error |-> r.error]

\* variant of evaluateInline that evaluates the statement in a scope of its
\* own instead of the scope of the document
evaluateInlineApart(filePath, statement) ==
  IF statement.kind = "blank"
  THEN /\ last' = Call("evaluateInline", filePath, <<statement>>, NoDocId,
                       <<>>, <<>>)
       /\ UNCHANGED <<scopes, settings, globalVars, saved, working, calls>>
  ELSE LET r == evaluateLine(statement, NewScope,
                             settings.defaultUnitSystem, Undefined)
       IN  /\ scopes' = getScope(scopes, filePath)
           /\ last' = Call("evaluateInline", filePath, <<statement>>, NoDocId,
                           <<InlineEntry(r)>>, <<r.evaluated>>)
           /\ UNCHANGED <<settings, globalVars, saved, working, calls>>

\* evaluateInline: an empty statement returns before the scope is looked up
evaluateInline(filePath, statement) ==
  IF statement.kind = "blank"
  THEN /\ last' = Call("evaluateInline", filePath, <<statement>>, NoDocId,
                       <<>>, <<>>)
       /\ UNCHANGED <<scopes, settings, globalVars, saved, working, calls>>
  ELSE LET r == evaluateLine(statement, getScope(scopes, filePath)[filePath],
                             settings.defaultUnitSystem, Undefined)
       IN  /\ scopes' = MapSet(scopes, filePath, r.scope)
           /\ last' = Call("evaluateInline", filePath, <<statement>>, NoDocId,
                           <<InlineEntry(r)>>, <<r.evaluated>>)
           /\ UNCHANGED <<settings, globalVars, saved, working, calls>>

\* ensureScopeMaps: the maps a scope lacks are added, empty
ensureScopeMaps(scope) ==
  [field \in (DOMAIN scope) \cup
             {"formulas", "dependencies", "dependents", "lineCache"} |->
     IF field \in DOMAIN scope THEN scope[field] ELSE EmptyMap]

\* variant of peekScope that looks the scope up with getScope
peekScopeCreating(filePath) ==
  /\ scopes' = getScope(scopes, filePath)
  /\ last' = Call("peekScope", filePath, <<>>, NoDocId,
                  <<getScope(scopes, filePath)[filePath]>>, <<>>)
  /\ UNCHANGED <<settings, globalVars, saved, working, calls>>

\* peekScope: null (no entry) when the document has no scope; otherwise the
\* scope, after ensureScopeMaps
peekScope(filePath) ==
  /\ scopes' = IF MapHas(scopes, filePath)
               THEN MapSet(scopes, filePath, ensureScopeMaps(scopes[filePath]))
               ELSE scopes
  /\ last' = Call("peekScope", filePath, <<>>, NoDocId,
                  IF MapHas(scopes, filePath)
                  THEN <<ensureScopeMaps(scopes[filePath])>> ELSE <<>>,
                  <<>>)
  /\ UNCHANGED <<settings, globalVars, saved, working, calls>>

ClearScope(filePath) ==
  /\ scopes' = clearScope(scopes, filePath)
  /\ last' = Call("clearScope", filePath, <<>>, NoDocId, <<>>, <<>>)
  /\ UNCHANGED <<settings, globalVars, saved, working, calls>>

clearAllScopes ==
  /\ scopes' = EmptyMap
  /\ last' = Call("clearAllScopes", "", <<>>, NoDocId, <<>>, <<>>)
  /\ UNCHANGED <<settings, globalVars, saved, working, calls>>

\* saveToolkitData: the globalVars written to the data file
\* variant of saveToolkitData that writes the constants it wrote or loaded
\* last (loadedGlobalVars), as it does when there is no engine
saveToolkitDataLoaded(store) == saved

saveToolkitData(store) == serializeGlobalVars(store)

\* the "Toggle auto recalc" command, which saves the settings
ToggleAutoRecalc ==
  /\ settings' = [settings EXCEPT !.autoRecalc = ~@]
  /\ saved' = saveToolkitData(globalVars)
  /\ last' = [Call("toggleAutoRecalc", "", <<>>, NoDocId, <<>>, <<>>)
                EXCEPT !.persisted = TRUE]
  /\ UNCHANGED <<scopes, globalVars, working, calls>>

\* the "Default unit system" dropdown of the settings tab
SetUnitSystem(v) ==
  /\ settings' = [settings EXCEPT !.defaultUnitSystem = v]
  /\ saved' = saveToolkitData(globalVars)
  /\ last' = [Call("setUnitSystem", last.filePath, last.source, last.docId,
                    <<>>, <<>>)
                EXCEPT !.persisted = TRUE,
                       !.restyled = /\ last.op = "evaluateBlock"
                                    /\ v # settings.defaultUnitSystem]
  /\ UNCHANGED <<scopes, globalVars, working, calls>>

\* the "Significant figures" slider of the settings tab
SetSigFigs(v) ==
  /\ settings' = [settings EXCEPT !.sigFigs = v]
  /\ saved' = saveToolkitData(globalVars)
  /\ last' = [Call("setSigFigs", last.filePath, last.source, last.docId,
                    <<>>, <<>>)
                EXCEPT !.persisted = TRUE,
                       !.restyled = /\ last.op = "evaluateBlock"
                                    /\ v # settings.sigFigs]
  /\ UNCHANGED <<scopes, globalVars, working, calls>>

\* the "Global variables" toggle of the settings tab, which saves the settings
ToggleGlobalVars ==
  /\ settings' = [settings EXCEPT !.globalVarsEnabled = ~@]
  /\ saved' = saveToolkitData(globalVars)
  /\ last' = [Call("toggleGlobalVars", "", <<>>, NoDocId, <<>>, <<>>)
                EXCEPT !.persisted = TRUE]
  /\ UNCHANGED <<scopes, globalVars, working, calls>>

\* upsertGlobalVar(name, source): the store is set and saved only when no
\* check and no evaluation has thrown
upsertGlobalVar(name, source) ==
  LET r == upsert(globalVars, Trim(name), source)
  IN  /\ globalVars' = r.store
      /\ saved' = IF r.error = "" THEN saveToolkitData(r.store) ELSE saved
      /\ last' = [Call("upsertGlobalVar", "", <<source>>, NoDocId, <<>>, <<>>)
                    EXCEPT !.name = Trim(name), !.error = r.error,
                           !.persisted = (r.error = "")]
      /\ UNCHANGED <<scopes, settings, working, calls>>

\* variant of deleteGlobalVar that removes the first constant of the store
\* when the name is not in it
deleteGlobalVarOrFirst(name) ==
  IF ~GlobalHas(globalVars, Text(Trim(name)))
  THEN /\ globalVars' = SubSeq(globalVars, 2, Len(globalVars))
       /\ saved' = saveToolkitData(SubSeq(globalVars, 2, Len(globalVars)))
       /\ last' = [Call("deleteGlobalVar", "", <<>>, NoDocId, <<>>, <<>>)
                     EXCEPT !.name = Trim(name), !.persisted = TRUE]
       /\ UNCHANGED <<scopes, settings, working, calls>>
  ELSE /\ globalVars' = GlobalDelete(globalVars, Text(Trim(name)))
       /\ saved' = saveToolkitData(GlobalDelete(globalVars, Text(Trim(name))))
       /\ last' = [Call("deleteGlobalVar", "", <<>>, NoDocId, <<>>, <<>>)
                     EXCEPT !.name = Trim(name), !.persisted = TRUE]
       /\ UNCHANGED <<scopes, settings, working, calls>>

\* deleteGlobalVar(name): returns at once when the name is not in the store
deleteGlobalVar(name) ==
  IF ~GlobalHas(globalVars, Text(Trim(name)))
  THEN /\ last' = [Call("deleteGlobalVar", "", <<>>, NoDocId, <<>>, <<>>)
                     EXCEPT !.name = Trim(name)]
       /\ UNCHANGED <<scopes, settings, globalVars, saved, working, calls>>
  ELSE /\ globalVars' = GlobalDelete(globalVars, Text(Trim(name)))
       /\ saved' = saveToolkitData(GlobalDelete(globalVars, Text(Trim(name))))
       /\ last' = [Call("deleteGlobalVar", "", <<>>, NoDocId, <<>>, <<>>)
                     EXCEPT !.name = Trim(name), !.persisted = TRUE]
       /\ UNCHANGED <<scopes, settings, working, calls>>

\* variant of loadGlobalVars that also empties the table of scopes
loadGlobalVarsClearing ==
  /\ globalVars' = loadEntries(saved)
  /\ scopes' = EmptyMap
  /\ last' = Call("loadGlobalVars", "", <<>>, NoDocId, saved, <<>>)
  /\ UNCHANGED <<settings, saved, working, calls>>

\* loadGlobalVars(entries) with the globalVars of the data file, as onload
\* calls it
loadGlobalVars ==
  /\ globalVars' = loadEntries(saved)
  /\ last' = Call("loadGlobalVars", "", <<>>, NoDocId, saved, <<>>)
  /\ UNCHANGED <<scopes, settings, saved, working, calls>>

\* getGlobalVarsSnapshot, as the settings tab calls it; the history keeps
\* what it returned
GlobalVarsSnapshot ==
  /\ last' = Call("getGlobalVarsSnapshot", "", <<>>, NoDocId,
                  getGlobalVarsSnapshot(globalVars), <<>>)
  /\ UNCHANGED <<scopes, settings, globalVars, saved, working, calls>>

\* a caller of evaluateToEntries that asks for no persistence, with the scope
\* it owns or with none
evaluateDetached(filePath, source, supplied, resetScope) ==
  LET r == evaluateToEntriesWith(scopes, FALSE, working, source, filePath,
                                 supplied, resetScope,
                                 buildBlockKey(filePath, NoDocId, source))
  IN  /\ scopes' = r.engine
      /\ working' = IF supplied THEN r.scope ELSE working
      /\ last' = [Call("evaluateToEntries", filePath, source, NoDocId,
                       r.entries, r.evaluated)
                    EXCEPT !.reset = resetScope, !.clean = IsClean(r.start),
                           !.error = r.thrown,
                           !.cached = DOMAIN r.start.lineCache,
                           !.notified = r.notified]
      /\ UNCHANGED <<settings, globalVars, saved, calls>>

\* the "Recalculate current note" command: the explicit reset of the active
\* note; reopening the file makes the code-block processor evaluate its blocks
recalculateActiveNote(filePath) ==
  /\ scopes' = clearScope(scopes, filePath)
  /\ last' = Call("recalculateActiveNote", filePath, <<>>, NoDocId, <<>>, <<>>)
  /\ UNCHANGED <<settings, globalVars, saved, working, calls>>

\* variant in which every operation hands over after each of its steps, as
\* if evaluateBlock awaited between two lines
AwaitsAlways(op) == TRUE

\* the operations that await: upsertGlobalVar and deleteGlobalVar await the
\* save of the data file; evaluateBlock and evaluateInline have no await
Awaits(op) == op \in {"upsertGlobalVar", "deleteGlobalVar"}

\* the call that has the thread after a step of a call that has more to do
Handover(id, op) == IF Awaits(op) THEN NoCall ELSE id

\* a call may begin, or go on after an await, when no synchronous code of
\* another call is running; a call that begins takes the first free place
MayBegin(id) ==
  /\ calls.running = NoCall /\ calls.pool[id] = Idle
  /\ \A other \in 1..(id - 1) : calls.pool[other] # Idle

MayGoOn(id, op) ==
  /\ calls.running \in {NoCall, id}
  /\ calls.pool[id].op = op

\* evaluateBlock up to lines.forEach: the scope is cleared when automatic
\* recalculation is on, and looked up
BeginBlock(id, filePath, source, docId) ==
  /\ MayBegin(id)
  /\ scopes' = getScope(IF settings.autoRecalc
                        THEN clearScope(scopes, filePath) ELSE scopes,
                        filePath)
  /\ calls' = [saves |-> calls.saves,
               running |-> Handover(id, "evaluateBlock"),
               pool |-> [calls.pool EXCEPT ![id] =
                 [op |-> "evaluateBlock", state |-> "running",
                  filePath |-> filePath, source |-> source, docId |-> docId,
                  blockKey |-> buildBlockKey(filePath, docId, source),
                  index |-> 0, entries |-> <<>>, evaluated |-> <<>>,
                  thrown |-> "", table |-> scopes,
                  reset |-> settings.autoRecalc]]]
  /\ UNCHANGED <<settings, globalVars, saved, working, last>>

\* the pass of a call so far
PassOf(call, scope) ==
  [scope |-> scope, entries |-> call.entries, evaluated |-> call.evaluated,
   thrown |-> call.thrown]

AfterLine(call, pass) ==
  [call EXCEPT !.index = @ + 1, !.entries = pass.entries,
               !.evaluated = pass.evaluated, !.thrown = pass.thrown]

\* one iteration of lines.forEach
BlockLine(id) ==
  /\ MayGoOn(id, "evaluateBlock")
  /\ calls.pool[id].index < Len(calls.pool[id].source)
  /\ calls.pool[id].thrown = ""
  /\ LET call == calls.pool[id]
         pass == Accumulate(PassOf(call, scopes[call.filePath]),
                   EvaluateEntry(call.source[call.index + 1], call.index,
                                 scopes[call.filePath],
                                 settings.defaultUnitSystem, call.blockKey))
     IN  /\ scopes' = MapSet(scopes, call.filePath, pass.scope)
         /\ calls' = [saves |-> calls.saves,
               running |-> Handover(id, "evaluateBlock"),
                      pool |-> [calls.pool EXCEPT ![id] = AfterLine(call, pass)]]
  /\ UNCHANGED <<settings, globalVars, saved, working, last>>

\* the end of evaluateToEntries and of evaluateBlock: the line cache is
\* pruned and the entries are rendered
FinishBlock(id) ==
  /\ MayGoOn(id, "evaluateBlock")
  /\ \/ calls.pool[id].index = Len(calls.pool[id].source)
     \/ calls.pool[id].thrown # ""
  /\ LET call == calls.pool[id]
         r == Pruned(scopes, call.filePath,
                     PassOf(call, scopes[call.filePath]), call.blockKey,
                     Len(call.source))
     IN  /\ scopes' = r.table
         /\ last' = [Call("evaluateBlock", call.filePath, call.source,
                          call.docId, r.entries, r.evaluated)
                       EXCEPT !.reset = call.reset, !.error = r.thrown]
  /\ calls' = [running |-> NoCall, pool |-> [calls.pool EXCEPT ![id] = Idle],
              saves |-> calls.saves]
  /\ UNCHANGED <<settings, globalVars, saved, working>>

\* evaluateInline, which has no await: it begins when no other call runs
\* and returns in the same turn
InlineCall(filePath, statement) ==
  /\ calls.running = NoCall
  /\ evaluateInline(filePath, statement)

\* upsertGlobalVar up to its await: the store is set and the data to save is
\* taken from it; a throw ends the call
BeginUpsert(id, name, source) ==
  /\ MayBegin(id)
  /\ LET r == upsert(globalVars, Trim(name), source)
     IN  IF r.error # ""
         THEN /\ last' = [Call("upsertGlobalVar", "", <<source>>, NoDocId,
                               <<>>, <<>>)
                            EXCEPT !.name = Trim(name), !.error = r.error]
              /\ UNCHANGED <<globalVars, calls>>
         ELSE /\ globalVars' = r.store
              /\ calls' = [saves |-> SaveStarted(calls.saves, id),
                       running |-> Handover(id, "upsertGlobalVar"),
                           pool |-> [calls.pool EXCEPT ![id] =
                             [op |-> "upsertGlobalVar", state |-> "awaiting",
                              name |-> Trim(name), source |-> source,
                              data |-> saveToolkitData(r.store)]]]
              /\ UNCHANGED last
  /\ UNCHANGED <<scopes, settings, saved, working>>

\* deleteGlobalVar up to its await; it returns at once when the name is not
\* in the store
BeginDelete(id, name) ==
  /\ MayBegin(id)
  /\ IF ~GlobalHas(globalVars, Text(Trim(name)))
     THEN /\ last' = [Call("deleteGlobalVar", "", <<>>, NoDocId, <<>>, <<>>)
                        EXCEPT !.name = Trim(name)]
          /\ UNCHANGED <<globalVars, calls>>
     ELSE /\ globalVars' = GlobalDelete(globalVars, Text(Trim(name)))
          /\ calls' = [saves |-> SaveStarted(calls.saves, id),
                       running |-> Handover(id, "deleteGlobalVar"),
                       pool |-> [calls.pool EXCEPT ![id] =
                         [op |-> "deleteGlobalVar", state |-> "awaiting",
                          name |-> Trim(name), source |-> EmptySource,
                          data |-> saveToolkitData(
                                     GlobalDelete(globalVars,
                                                  Text(Trim(name))))]]]
          /\ UNCHANGED last
  /\ UNCHANGED <<scopes, settings, saved, working>>

\* the save is done: the call goes on after its await and returns
FinishSave(id) ==
  /\ calls.running \in {NoCall, id}
  /\ calls.pool[id].state = "awaiting"
  /\ saved' = calls.pool[id].data
  /\ last' = [Call(calls.pool[id].op, "", <<calls.pool[id].source>>, NoDocId,
                   <<>>, <<>>)
                EXCEPT !.name = calls.pool[id].name, !.persisted = TRUE]
  /\ calls' = [running |-> NoCall, pool |-> [calls.pool EXCEPT ![id] = Idle],
              saves |-> SaveDone(calls.saves, id)]
  /\ UNCHANGED <<scopes, settings, globalVars, working>>

\* a toggle of the settings tab, between two turns
ToggleGlobalVarsIdle == calls.running = NoCall /\ ToggleGlobalVars

NextOver(paths, blocks, docIds, statements) ==
  \/ \E filePath \in paths, source \in blocks, docId \in docIds :
       evaluateBlock(filePath, source, docId)
  \/ \E filePath \in paths, statement \in statements :
       evaluateInline(filePath, statement)
  \/ \E filePath \in paths : ClearScope(filePath)
  \/ clearAllScopes
  \/ ToggleAutoRecalc

\* one document, every block
Next == NextOver(Paths, BlockSet, DocIds, Statements)

Spec == Init /\ [][Next]_vars

\* two documents, a few blocks
IsoNext == NextOver(IsoPaths, IsoBlocks, {NoDocId}, IsoStatements)

IsoSpec == Init /\ [][IsoNext]_vars

\* one document, blocks that read b before they assign it or do not assign
\* it, and inline statements that assign and read
InlineBlocks == {<<a1, cB1, b5>>, <<a1, bA1>>}

InlineStatements ==
  {Assign("b", ENum(7)), Expression(ESym("b")), Expression(ESym("a")), Blank}

InlineNext == NextOver(Paths, InlineBlocks, {NoDocId}, InlineStatements)

InlineSpec == Init /\ [][InlineNext]_vars

\* two documents, with the completion provider looking at their scopes
PeekNext ==
  \/ NextOver(IsoPaths, IsoBlocks, {NoDocId}, IsoStatements)
  \/ \E filePath \in IsoPaths : peekScope(filePath)

PeekSpec == Init /\ [][PeekNext]_vars

\* one document and the versions of one block, rendered under the fallback
\* key and under an id that is the path of the document, as the
\* recalculation command gives it
CacheBlocks == {cacheLong, cacheMid, cacheGone}

CacheDocIds == {NoDocId, "d1"}

CacheNext == NextOver(Paths, CacheBlocks, CacheDocIds, {Blank})

CacheSpec == Init /\ [][CacheNext]_vars

\* calls in flight: blocks that read the global constant a, inline
\* statements, and the constant set and deleted meanwhile
AsyncUpserts == {<<<<"a">>, ENum(2)>>, <<<<"a">>, ENum(3)>>, <<<<"g">>, EBad>>}

AsyncDeletes == {<<"a">>}

AsyncStatements == {a1, Expression(ESym("a"))}

AsyncBlocks == {<<bA1>>, <<a1, bA1>>}

AsyncNext ==
  \/ \E id \in CallIds, filePath \in Paths, source \in AsyncBlocks :
       BeginBlock(id, filePath, source, NoDocId)
  \/ \E id \in CallIds : BlockLine(id)
  \/ \E id \in CallIds : FinishBlock(id)
  \/ \E filePath \in Paths, statement \in AsyncStatements :
       InlineCall(filePath, statement)
  \/ \E id \in CallIds, input \in AsyncUpserts :
       BeginUpsert(id, input[1], input[2])
  \/ \E id \in CallIds, name \in AsyncDeletes : BeginDelete(id, name)
  \/ \E id \in CallIds : FinishSave(id)
  \/ ToggleGlobalVarsIdle

AsyncSpec == Init /\ [][AsyncNext]_vars

\* the recalculation command among the engine's operations
RecalcNext ==
  \/ NextOver(IsoPaths, IsoBlocks, {NoDocId}, IsoStatements)
  \/ \E filePath \in IsoPaths : recalculateActiveNote(filePath)

RecalcSpec == Init /\ [][RecalcNext]_vars

\* callers of evaluateToEntries without persistence among the operations
DetachedNext ==
  \/ NextOver(Paths, IsoBlocks, {NoDocId}, IsoStatements)
  \/ \E filePath \in Paths, source \in IsoBlocks, supplied \in BOOLEAN,
        resetScope \in BOOLEAN :
       evaluateDetached(filePath, source, supplied, resetScope)

DetachedSpec == Init /\ [][DetachedNext]_vars

\* the names and expressions given to the operations of the global store:
\* two constants, one defined from the other or from itself, names with
\* blanks around them, an empty name, a name that starts with a digit, an
\* empty expression, an expression that cannot be parsed
UpsertInputs ==
  {<<<<"a">>, ENum(2)>>, <<<<"a">>, ENum(3)>>, <<<<"g">>, ENum(2)>>,
   <<<<"g">>, EMul(ESym("a"), 2)>>, <<<<"g">>, EAdd(ESym("g"), ENum(1))>>,
   <<<<" ", "g", " ">>, ENum(2)>>, <<<<" ">>, ENum(2)>>,
   <<<<"2", "g">>, ENum(2)>>, <<<<"g">>, EmptySource>>, <<<<"g">>, EBad>>}

DeleteInputs == {<<"a">>, <<"g">>, <<" ", "g", " ">>}

GlobalBlocks == {<<bA1>>, <<a1, bA1>>}

\* the global store among the engine's operations, automatic recalculation on
GlobalNext ==
  \/ \E input \in UpsertInputs : upsertGlobalVar(input[1], input[2])
  \/ \E name \in DeleteInputs : deleteGlobalVar(name)
  \/ loadGlobalVars
  \/ GlobalVarsSnapshot
  \/ ToggleGlobalVars
  \/ \E filePath \in Paths, source \in GlobalBlocks :
       evaluateBlock(filePath, source, NoDocId)
  \/ \E filePath \in Paths : evaluateInline(filePath, Expression(ESym("a")))

GlobalSpec == Init /\ [][GlobalNext]_vars

UnitBlocks == {SampleSI, SampleUS, SampleOther}

UnitSystems == {"SI", "US"}

\* two positions of the slider, which runs from 3 to 8
Precisions == {3, 4}

\* block evaluation under every unit system and precision
UnitNext ==
  \/ \E filePath \in Paths, source \in UnitBlocks :
       evaluateBlock(filePath, source, NoDocId)
  \/ \E v \in UnitSystems : SetUnitSystem(v)
  \/ \E v \in Precisions : SetSigFigs(v)
  \/ ToggleAutoRecalc

UnitSpec == Init /\ [][UnitNext]_vars

\* the pieces of which the lines given to the classifier are made, and the
\* number of pieces of a line
Pieces ==
  {<<"x">>, <<"1">>, <<"=">>, <<" ">>, <<"#">>, <<"/", "/">>, <<"\r">>,
   <<"-", ">">>, <<"t", "o">>, <<" ", "-", ">", " ">>, <<" ", "t", "o", " ">>}

MaxPieces == 4

RECURSIVE LinesOf(_)
LinesOf(n) ==
  IF n = 0 THEN {<<>>}
  ELSE {<<>>} \cup {piece \o rest : piece \in Pieces, rest \in LinesOf(n - 1)}

\* lines of five pieces: an assignment and a conversion with three parts
LongLines ==
  {<<"x">> \o first \o <<"1">> \o second \o <<"x">> :
     first \in Pieces, second \in Pieces}

RawLines == LinesOf(MaxPieces) \cup LongLines

\* a raw line is given
ClassifyInit ==
  /\ scopes = EmptyMap
  /\ settings = [autoRecalc |-> TRUE, defaultUnitSystem |-> "SI", sigFigs |-> 4,
                 globalVarsEnabled |-> FALSE]
  /\ globalVars = EmptyMap
  /\ saved = EmptyMap
  /\ working = NewScope
  /\ calls = NoCalls
  /\ \E raw \in RawLines : last = [op |-> "line", raw |-> raw]

\* the callback of lines.forEach up to the evaluation of the expression: the
\* line is trimmed, a line that is empty is a blank, another is classified
ClassifyLine ==
  /\ last.op = "line"
  /\ last' = IF Trim(last.raw) = <<>>
             THEN [op |-> "blank", raw |-> last.raw, line |-> <<>>]
             ELSE [op |-> "evaluateLine", raw |-> last.raw,
                   line |-> Trim(last.raw),
                   result |-> evaluateLineText(Trim(last.raw))]
  /\ UNCHANGED <<scopes, settings, globalVars, saved, working, calls>>

ClassifyNext == ClassifyLine

ClassifySpec == ClassifyInit /\ [][ClassifyNext]_vars

-----------------------------------------------------------------------------
(* Properties.                                                             *)

AssignmentLines(source) ==
  {i \in 1..Len(source) : source[i].kind = "assignment"}

\* the names that the lines before line i assign, and those from line i on
AssignedBefore(source, i) ==
  {source[j].name : j \in {k \in AssignmentLines(source) : k < i}}

AssignedFrom(source, i) ==
  {source[j].name : j \in {k \in AssignmentLines(source) : k >= i}}

LineSymbols(line) ==
  IF line.kind \in {"assignment", "convert", "expression"}
  THEN SymbolNodes(line.expr) ELSE {}

\* no line refers to a name that the same or a later line assigns
NoForwardReference(source) ==
  \A i \in 1..Len(source) :
    LineSymbols(source[i]) \cap AssignedFrom(source, i) = {}

\* the names a set of names depends on through the assignments of a text
RECURSIVE Upstream(_, _)
Upstream(source, names) ==
  IF names \cup UNION {SymbolNodes(source[j].expr) :
                         j \in {k \in AssignmentLines(source) :
                                  source[k].name \in names}} = names
  THEN names
  ELSE Upstream(source,
         names \cup UNION {SymbolNodes(source[j].expr) :
                             j \in {k \in AssignmentLines(source) :
                                      source[k].name \in names}})

\* the names whose assignment succeeded in a list of entries
AssignedIn(entries) ==
  {entries[i].name : i \in {k \in 1..Len(entries) : entries[k].type = "assignment"}}

UndefinedIn(entry) ==
  entry.type = "error" /\ entry.error = "Undefined symbol"

\* C1: in every scope, b is in dependencies[a] exactly when a is in
\* dependents[b], after any sequence of block evaluations, inline
\* evaluations and scope clearings.
C1_DependencyMapsConsistent ==
  \A p \in DOMAIN scopes :
    /\ \A a \in DOMAIN scopes[p].dependencies :
         \A b \in scopes[p].dependencies[a] :
           MapHas(scopes[p].dependents, b) /\ a \in scopes[p].dependents[b]
    /\ \A b \in DOMAIN scopes[p].dependents :
         \A a \in scopes[p].dependents[b] :
           MapHas(scopes[p].dependencies, a) /\ b \in scopes[p].dependencies[a]

\* b = a + 1 was rewritten to b = 5 (c = 3 was computed from the old b): the
\* dependency set of b shrank and a lost its only dependent
C1_Witness ==
  /\ MapHas(scopes, "d1")
  /\ MapHas(scopes["d1"].vars, "c") /\ scopes["d1"].vars["c"].value = Num(3)
  /\ MapHas(scopes["d1"].formulas, "b") /\ scopes["d1"].formulas["b"] = ENum(5)
  /\ scopes["d1"].dependencies["b"] = {}
  /\ ~MapHas(scopes["d1"].dependents, "a")
  /\ scopes["d1"].dependents["b"] = {"c"}

\* C2: a block evaluation returns one entry per line, in the position of the
\* line; every line that is neither blank nor a comment is evaluated, whether
\* or not an earlier line failed; a name assigned by a line that succeeded is
\* in the scope afterwards, and a later line that refers only to such names
\* does not fail on an undefined symbol.  For a = 5 kg, b = a + undefinedVar,
\* c = a * 2 only the second entry is an error and c is 10 kg.
C2_ErrorIsolation ==
  last.op = "evaluateBlock" =>
    /\ Len(last.entries) = Len(last.source)
    /\ \A i \in 1..Len(last.source) :
         /\ last.entries[i].raw = last.source[i]
         /\ last.evaluated[i] <=> last.source[i].kind \notin {"blank", "comment"}
         /\ last.entries[i].type = "error" => last.evaluated[i]
         /\ last.entries[i].type = "assignment" =>
              MapHas(scopes[last.filePath].vars, last.entries[i].name)
         /\ (LineSymbols(last.source[i]) \
               (AssignedIn(SubSeq(last.entries, 1, i - 1)) \cup Units) = {})
              => ~UndefinedIn(last.entries[i])
    /\ last.source = <<a5kg, bAu, cA2>> =>
         /\ last.entries[1].type = "assignment"
         /\ last.entries[1].display = <<"5", " ", "kg">>
         /\ UndefinedIn(last.entries[2])
         /\ last.entries[3].type = "assignment"
         /\ last.entries[3].display = <<"1", "0", " ", "kg">>
         /\ scopes[last.filePath].vars["c"].value = Qty(10, "kg")

C2_Witness ==
  /\ last.op = "evaluateBlock"
  /\ last.source = <<a5kg, bAu, cA2>>
  /\ last.entries[2].type = "error"
  /\ last.entries[3].type = "assignment"
  /\ MapHas(scopes[last.filePath].vars, "a")

\* the assignments after the rewritten line that refer to the rewritten name
\* and whose own name and symbols no later line assigns
C3_Dependents ==
  IF last.op = "evaluateBlock" /\ last.changed > 0
  THEN {j \in AssignmentLines(last.source) :
          /\ j > last.changed
          /\ last.source[last.changed].name \in SymbolNodes(last.source[j].expr)
          /\ last.source[j].name # last.source[last.changed].name
          /\ AssignedFrom(last.source, j + 1) \cap
               ({last.source[j].name} \cup SymbolNodes(last.source[j].expr)) = {}}
  ELSE {}

C3_Fresh(j, r) ==
  /\ r.ok
  /\ scopes[last.filePath].vars[last.source[j].name].value = r.value
  /\ scopes[last.filePath].vars[last.source[j].name].display =
       formatForEvaluation(r.value, settings.defaultUnitSystem).formatted.display

\* C3 as stated: after a block is evaluated again with the expression of a
\* rewritten, whatever value and display the scope holds for a later
\* assignment b that refers to a are those computed from the new value of a.
C3_DirtyPropagationAlways ==
  \A j \in C3_Dependents :
    MapHas(scopes[last.filePath].vars, last.source[j].name) =>
      C3_Fresh(j, evalExpression(last.source[j].expr, scopes[last.filePath]))

\* C3, amended: when the expression of b evaluates without error against the
\* new value of a, the scope holds for b the value and the display computed
\* from the new value of a.
C3_DirtyPropagation ==
  \A j \in C3_Dependents :
    evalExpression(last.source[j].expr, scopes[last.filePath]).ok =>
      /\ MapHas(scopes[last.filePath].vars, last.source[j].name)
      /\ C3_Fresh(j, evalExpression(last.source[j].expr, scopes[last.filePath]))

\* a = 1, b = a + 1 evaluated again as a = 2, b = a + 1 without a reset
C3_Witness ==
  /\ C3_Dependents # {}
  /\ ~settings.autoRecalc
  /\ last.source = <<a2, bA1>>
  /\ scopes[last.filePath].vars["b"].value = Num(3)
  /\ scopes[last.filePath].vars["b"].display = <<"3">>

C4_SameOutcome ==
  /\ last'.entries = last.entries
  /\ scopes'[last'.filePath].dependencies = scopes[last'.filePath].dependencies
  /\ scopes'[last'.filePath].dependents = scopes[last'.filePath].dependents
  /\ scopes'[last'.filePath].formulas = scopes[last'.filePath].formulas
  /\ scopes'[last'.filePath].lineCache = scopes[last'.filePath].lineCache

\* C4 as stated: evaluating the same block with the same text again, on the
\* scope the first evaluation left, returns the same entries and leaves the
\* dependency maps, the formulas and the line cache as they were, whatever
\* the text.
C4_IdempotentAlways ==
  [][(last'.repeated /\ ~settings.autoRecalc) => C4_SameOutcome]_vars

\* C4, amended: the same, for every text in which no line refers to a name
\* that the same or a later line assigns.
C4_Idempotent ==
  [][(last'.repeated /\ ~settings.autoRecalc
        /\ NoForwardReference(last'.source)) => C4_SameOutcome]_vars

\* a block without forward references was evaluated twice in a row, without a
\* reset, on a scope that holds dependency edges and cached lines
C4_Witness ==
  /\ last.repeated /\ ~settings.autoRecalc
  /\ NoForwardReference(last.source)
  /\ scopes[last.filePath].lineCache # EmptyMap
  /\ scopes[last.filePath].dependents # EmptyMap
  /\ \E i \in 1..Len(last.entries) : last.entries[i].type = "convert"

\* line i assigns a name that is in the scope with the same formula and the
\* same dependency set, and no earlier line of the pass assigned the name or
\* one of its dependencies
C5_Unchanged(scope, source, i) ==
  /\ source[i].kind = "assignment"
  /\ MapHas(scope.vars, source[i].name)
  /\ MapHas(scope.formulas, source[i].name)
  /\ scope.formulas[source[i].name] = source[i].expr
  /\ MapHas(scope.dependencies, source[i].name)
  /\ scope.dependencies[source[i].name] = analyzeDependencies(source[i].expr)
  /\ AssignedBefore(source, i) \cap
       ({source[i].name} \cup analyzeDependencies(source[i].expr)) = {}

\* C5: in a pass over a scope that was not reset, the expression of an
\* assignment is not evaluated when the name is in the scope, its stored
\* formula and dependency set are those of the line, and none of its
\* dependencies was assigned earlier in the pass.
C5_EvaluatedOnlyWhenNeeded ==
  [][(last'.op = "evaluateBlock" /\ ~settings.autoRecalc
        /\ MapHas(scopes, last'.filePath)) =>
       \A i \in 1..Len(last'.source) :
         C5_Unchanged(scopes[last'.filePath], last'.source, i)
           => ~last'.evaluated[i]]_vars

\* C6: when a block is evaluated again with only the expression of a
\* rewritten, every name the block assigns that does not depend on a, directly
\* or through other assignments of the block, and that is in the scope after
\* the first pass, has after the second pass the display it had before it.
C6_StableSkip ==
  [][(last'.op = "evaluateBlock" /\ last'.changed > 0) =>
       \A j \in AssignmentLines(last'.source) :
         (/\ last'.source[last'.changed].name
               \notin Upstream(last'.source, {last'.source[j].name})
          /\ MapHas(scopes[last'.filePath].vars, last'.source[j].name)) =>
             /\ MapHas(scopes'[last'.filePath].vars, last'.source[j].name)
             /\ scopes'[last'.filePath].vars[last'.source[j].name].display =
                  scopes[last'.filePath].vars[last'.source[j].name].display]_vars

\* the lines of the second of two blocks that refer only to names the first
\* block assigned, and to at least one of them
C7_Readers(first, second) ==
  {i \in 1..Len(second) :
     /\ LineSymbols(second[i]) \cap AssignedIn(first) # {}
     /\ LineSymbols(second[i]) \subseteq (AssignedIn(first) \cup Units)}

\* C7 as stated: when two blocks of one document are evaluated one after the
\* other, a line of the second block that refers to names the first block
\* assigned finds them defined, whatever the auto-recalculate setting.
C7_SharedScopeAlways ==
  [][last'.follows =>
       \A i \in C7_Readers(last.entries, last'.source) :
         ~UndefinedIn(last'.entries[i])]_vars

\* C7, amended: it finds them defined when auto-recalculate is off; when it
\* is on, the scope is cleared before the second block, and the line finds
\* only the names that earlier lines of the second block assigned.
C7_SharedScope ==
  [][last'.follows =>
       \A i \in C7_Readers(last.entries, last'.source) :
         IF settings.autoRecalc
         THEN UndefinedIn(last'.entries[i]) <=>
                ~(LineSymbols(last'.source[i]) \subseteq
                    (AssignedIn(SubSeq(last'.entries, 1, i - 1)) \cup Units))
         ELSE ~UndefinedIn(last'.entries[i])]_vars

\* a1, c = b + 1, b = 5 evaluated with auto-recalculate off right after a
\* block that assigned b = 2: c is 3
C7_Witness ==
  /\ last.follows /\ ~last.repeated /\ ~settings.autoRecalc
  /\ last.source = <<a1, cB1, b5>>
  /\ last.entries[2].type = "assignment"
  /\ last.entries[2].value = Num(3)

\* C8: an evaluation, an inline evaluation or a clearScope on one document
\* neither creates, removes nor changes the scope of another document.
C8_ScopeIsolation ==
  [][\A p \in IsoPaths :
       (last'.op \in {"evaluateBlock", "evaluateInline", "clearScope"}
          /\ last'.filePath # p) =>
         /\ MapHas(scopes', p) <=> MapHas(scopes, p)
         /\ MapHas(scopes, p) => scopes'[p] = scopes[p]]_vars

\* both documents evaluated a = 1, b = a + 1; then a = 2 was evaluated in d1
\* only, and d2 still has a = 1
C8_Witness ==
  /\ MapHas(scopes, "d1") /\ MapHas(scopes, "d2")
  /\ last.op = "evaluateInline" /\ last.filePath = "d1"
  /\ scopes["d1"].formulas = scopes["d2"].formulas
  /\ MapHas(scopes["d2"].formulas, "b")
  /\ scopes["d1"].vars["a"].value = Num(2)
  /\ scopes["d2"].vars["a"].value = Num(1)
  /\ scopes["d1"].vars["b"] = scopes["d2"].vars["b"]

\* the line-cache keys of a block
C9_OwnKeys(lineCache, blockKey) ==
  {k \in DOMAIN lineCache : StartsWith(k, blockKey \o <<":">>)}

\* C9: with auto-recalculate off, a block evaluation keeps what the scope
\* holds: every variable stays, unchanged unless the block assigns it; every
\* formula and dependency set stays; every cached line of another block stays.
C9_ScopeKept ==
  [][(last'.op = "evaluateBlock" /\ ~settings.autoRecalc
        /\ MapHas(scopes, last'.filePath)) =>
       /\ \A n \in DOMAIN scopes[last'.filePath].vars :
            /\ MapHas(scopes'[last'.filePath].vars, n)
            /\ n \notin AssignedFrom(last'.source, 1) =>
                 scopes'[last'.filePath].vars[n] = scopes[last'.filePath].vars[n]
       /\ DOMAIN scopes[last'.filePath].formulas
            \subseteq DOMAIN scopes'[last'.filePath].formulas
       /\ DOMAIN scopes[last'.filePath].dependencies
            \subseteq DOMAIN scopes'[last'.filePath].dependencies
       /\ \A k \in DOMAIN scopes[last'.filePath].lineCache \
                     C9_OwnKeys(scopes[last'.filePath].lineCache,
                                buildBlockKey(last'.filePath, last'.docId,
                                              last'.source)) :
            /\ MapHas(scopes'[last'.filePath].lineCache, k)
            /\ scopes'[last'.filePath].lineCache[k] =
                 scopes[last'.filePath].lineCache[k]]_vars

\* with auto-recalculate off, the scope holds a variable that the block just
\* evaluated does not assign and a cached line of another block
C9_Witness ==
  /\ last.op = "evaluateBlock" /\ ~settings.autoRecalc
  /\ DOMAIN scopes[last.filePath].vars \ AssignedFrom(last.source, 1) # {}
  /\ DOMAIN scopes[last.filePath].lineCache \
       C9_OwnKeys(scopes[last.filePath].lineCache,
                  buildBlockKey(last.filePath, last.docId, last.source)) # {}

\* the scope after a pass holds only what the pass put there, and a line that
\* refers to a name no earlier line of the pass assigned fails
C10_Cleared ==
  /\ DOMAIN scopes'[last'.filePath].vars \subseteq AssignedFrom(last'.source, 1)
  /\ DOMAIN scopes'[last'.filePath].formulas
       \subseteq AssignedFrom(last'.source, 1)
  /\ DOMAIN scopes'[last'.filePath].lineCache \subseteq
       VisitedLineKeys(buildBlockKey(last'.filePath, last'.docId, last'.source),
                       Len(last'.source))
  /\ \A i \in 1..Len(last'.source) :
       (LineSymbols(last'.source[i]) \
          (AssignedIn(SubSeq(last'.entries, 1, i - 1)) \cup Units) # {})
         => UndefinedIn(last'.entries[i])

\* every variable and every cached line of the scope before a pass is in the
\* scope after it, unless the line cache entry is one of the block's own
C10_NotCleared ==
  /\ DOMAIN scopes[last'.filePath].vars
       \subseteq DOMAIN scopes'[last'.filePath].vars
  /\ DOMAIN scopes[last'.filePath].lineCache \
       C9_OwnKeys(scopes[last'.filePath].lineCache,
                  buildBlockKey(last'.filePath, last'.docId, last'.source))
       \subseteq DOMAIN scopes'[last'.filePath].lineCache

\* C10 as stated: with auto-recalculate off the scope is cleared before each
\* block evaluation, so that the pass sees nothing of an earlier pass; with
\* auto-recalculate on it is not cleared.
C10_ClearedWhenDisabled ==
  [][(last'.op = "evaluateBlock" /\ MapHas(scopes, last'.filePath)) =>
       IF settings.autoRecalc THEN C10_NotCleared ELSE C10_Cleared]_vars

\* C10, amended: with auto-recalculate on the scope is cleared before each
\* block evaluation, so that the pass sees nothing of an earlier pass; with
\* auto-recalculate off it is not cleared.
C10_ClearedWhenEnabled ==
  [][(last'.op = "evaluateBlock" /\ MapHas(scopes, last'.filePath)) =>
       IF settings.autoRecalc THEN C10_Cleared ELSE C10_NotCleared]_vars

\* a1, c = b + 1, b = 5 evaluated twice in a row with auto-recalculate on:
\* the second pass does not see the b of the first
C10_Witness ==
  /\ last.repeated /\ settings.autoRecalc
  /\ last.source = <<a1, cB1, b5>>
  /\ UndefinedIn(last.entries[2])
  /\ DOMAIN scopes[last.filePath].vars = {"a", "b"}

-----------------------------------------------------------------------------
(* C11 *)

\* C11: the two reset triggers are mutually exclusive: the block evaluation
\* that a recalculation command starts (the command has just cleared the
\* note's scope) does not also perform the automatic reset of evaluateBlock.
C11_ResetsExclusive ==
  ~(last.op = "evaluateBlock" /\ last.commanded /\ last.reset)

-----------------------------------------------------------------------------
(* C12 *)

\* C12: whenever an evaluation is asked to reset its scope, every map of the
\* working scope (vars, formulas, dependencies, dependents, lineCache) is
\* empty before the first line is evaluated, for the engine-owned scope
\* (evaluateBlock) and for a scope the caller supplies (persist false).
C12_ResetEmptiesAllMaps ==
  (last.op \in {"evaluateBlock", "evaluateToEntries"} /\ last.reset)
    => last.clean

-----------------------------------------------------------------------------
(* C13 *)

\* the text whose lines fail in every way: a conversion between units that
\* do not match, two lines that cannot be parsed, an unknown variable
FailingBlock == Blocks[10]

-----------------------------------------------------------------------------
(* C14 *)

\* an upsert whose name and expression pass the checks
C14_Evaluating ==
  /\ last'.op = "upsertGlobalVar"
  /\ isValidIdentifier(last'.name)
  /\ last'.source[1] # EmptySource

\* the values of the stored constants whose name is not the given one
C14_Others(name) ==
  [other \in {store_name \in GlobalNames(globalVars) : store_name # name} |->
     GlobalGet(globalVars, other).value]

\* a reference of the expression to the name being defined fails, stored or
\* not; an expression over the other constants gets their values
C14_SelfExcludedStep ==
  C14_Evaluating =>
    /\ Text(last'.name) \in SymbolNodes(last'.source[1])
         => last'.error = "Undefined symbol" /\ globalVars' = globalVars
    /\ (/\ SymbolNodes(last'.source[1]) # {}
        /\ SymbolNodes(last'.source[1]) \subseteq DOMAIN C14_Others(Text(last'.name)))
         => /\ last'.error = ""
            /\ GlobalGet(globalVars', Text(last'.name)).value =
                 MathEvaluate(last'.source[1],
                              C14_Others(Text(last'.name))).value

-----------------------------------------------------------------------------
(* C15 *)

\* the four ways an upsert fails: an empty name, a name that is no
\* identifier, an empty expression, an expression that does not evaluate
C15_Failure ==
  CASE last'.name = <<>> -> "Name is required"
    [] last'.name # <<>> /\ ~isValidIdentifier(last'.name) ->
         "Invalid variable name"
    [] isValidIdentifier(last'.name) /\ last'.source[1] = EmptySource ->
         "Expression is required"
    [] isValidIdentifier(last'.name) /\ last'.source[1] = EBad ->
         "Unexpected end of expression"
    [] /\ isValidIdentifier(last'.name)
       /\ last'.source[1] \notin {EmptySource, EBad}
       /\ ~(SymbolNodes(last'.source[1]) \subseteq
              GlobalNames(globalVars) \ {Text(last'.name)}) ->
         "Undefined symbol"
    [] OTHER -> ""

C15_UpsertStep ==
  last'.op = "upsertGlobalVar" =>
    /\ last'.error = C15_Failure
    /\ last'.error # "" =>
         /\ globalVars' = globalVars
         /\ saved' = saved
         /\ ~last'.persisted
    /\ last'.error = "" =>
         /\ GlobalNames(globalVars') =
              GlobalNames(globalVars) \cup {Text(last'.name)}
         /\ \A other \in GlobalNames(globalVars) \ {Text(last'.name)} :
              GlobalGet(globalVars', other) = GlobalGet(globalVars, other)
         /\ GlobalGet(globalVars', Text(last'.name)).source = last'.source[1]
         /\ last'.persisted
         /\ saved' = globalVars'

\* C15: an upsert that fails (empty name, illegal identifier, empty
\* expression, evaluation failure) surfaces an error, leaves the store as it
\* was and persists nothing; one that succeeds replaces the entry of that
\* name only and persists the store.
C15_UpsertAllOrNothing == [][C15_UpsertStep]_vars

\* an illegal name has just been rejected while two constants are stored
C15_Witness ==
  /\ last.op = "upsertGlobalVar"
  /\ last.error = "Invalid variable name"
  /\ ~last.persisted
  /\ GlobalNames(globalVars) = {"a", "g"}
  /\ saved = globalVars

-----------------------------------------------------------------------------
(* C16 *)

C16_DeleteStep ==
  last'.op = "deleteGlobalVar" =>
    /\ last'.error = ""
    /\ ~GlobalHas(globalVars, Text(last'.name)) =>
         /\ globalVars' = globalVars
         /\ saved' = saved
         /\ ~last'.persisted
    /\ GlobalHas(globalVars, Text(last'.name)) =>
         /\ GlobalNames(globalVars') = GlobalNames(globalVars) \ {Text(last'.name)}
         /\ \A other \in GlobalNames(globalVars') :
              GlobalGet(globalVars', other) = GlobalGet(globalVars, other)
         /\ last'.persisted
         /\ saved' = globalVars'
    \* a delete that follows a delete of the same name changes nothing
    /\ (last.op = "deleteGlobalVar" /\ last.name = last'.name) =>
         globalVars' = globalVars /\ saved' = saved

\* C16: deleteGlobalVar is idempotent: for a name that is not stored it
\* completes without an error and leaves the store and the data file as they
\* were; for a stored name it removes exactly that entry and persists; the
\* second of two deletes of one name changes nothing.
C16_DeleteIdempotent == [][C16_DeleteStep]_vars

\* the second of two deletes of g, another constant being stored
C16_Witness ==
  /\ last.op = "deleteGlobalVar"
  /\ last.name = <<"g">>
  /\ ~last.persisted
  /\ last.error = ""
  /\ GlobalNames(globalVars) = {"a"}
  /\ saved = globalVars

-----------------------------------------------------------------------------
(* C17 *)

\* the persisted values of the constants other than the one at index
PersistedOthers(entries, index) ==
  [name \in {entries[j].name : j \in DOMAIN entries \ {index}} |->
     GlobalGet(entries, name).value]

\* whether the source of the persisted entry at index evaluates against the
\* other persisted constants
EvaluatesOnLoad(entries, index) ==
  /\ entries[index].entry.source # EmptySource
  /\ MathEvaluate(entries[index].entry.source,
                  PersistedOthers(entries, index)).ok

C17_LoadStep ==
  last'.op = "loadGlobalVars" =>
    /\ last'.error = ""
    /\ Len(globalVars') = Len(saved)
    /\ \A i \in DOMAIN saved :
         /\ globalVars'[i].name = saved[i].name
         /\ (saved[i].entry.source # EmptySource /\ ~EvaluatesOnLoad(saved, i))
              => /\ globalVars'[i].entry.value = saved[i].entry.value
                 /\ globalVars'[i].entry.display = saved[i].entry.display

-----------------------------------------------------------------------------
(* C18 *)

C18_LoadStep ==
  last'.op = "loadGlobalVars" =>
    \A i \in DOMAIN saved :
      EvaluatesOnLoad(saved, i) =>
        globalVars'[i].entry.value =
          MathEvaluate(saved[i].entry.source, PersistedOthers(saved, i)).value

\* C18: on load each persisted constant that carries a source is re-evaluated
\* against the other persisted constants, all of them except itself: a
\* constant that refers to another persisted constant is recomputed from the
\* value of that constant, whatever the position of the two entries in the
\* persisted map.
C18_LoadAgainstAllOthers == [][C18_LoadStep]_vars

-----------------------------------------------------------------------------
(* C19 *)

GlobalOperations ==
  {"loadGlobalVars", "upsertGlobalVar", "deleteGlobalVar",
   "getGlobalVarsSnapshot"}

C19_SeparateStep ==
  /\ last'.op \in GlobalOperations => scopes' = scopes /\ working' = working
  /\ last'.op \in {"evaluateBlock", "evaluateInline"} =>
       globalVars' = globalVars /\ saved' = saved

\* C19: loadGlobalVars, upsertGlobalVar, deleteGlobalVar and
\* getGlobalVarsSnapshot leave every Note Scope as it was (variables,
\* formulas, dependency maps, line cache), and no block or inline evaluation
\* writes to the store of global constants.
C19_StoresSeparate == [][C19_SeparateStep]_vars

\* a constant has been upserted while the scope of a document holds a
\* variable computed from a global constant
C19_Witness ==
  /\ last.op = "upsertGlobalVar"
  /\ last.error = ""
  /\ MapHas(scopes, "d1")
  /\ MapHas(scopes["d1"].vars, "b")
  /\ ~MapHas(scopes["d1"].vars, "a")
  /\ GlobalHas(globalVars, "a")

-----------------------------------------------------------------------------
(* C20 *)

\* whether the global constant a is visible to an evaluation
GlobalVisible ==
  settings.globalVarsEnabled /\ GlobalHas(globalVars, "a")

\* "b = a + 1" alone: a is the global constant when the feature is on and
\* the constant is stored, and is unknown otherwise
C20_GlobalRead ==
  (last.op = "evaluateBlock" /\ last.source = <<bA1>>) =>
    IF GlobalVisible
    THEN /\ last.entries[1].type = "assignment"
         /\ last.entries[1].value =
              Num(GlobalGet(globalVars, "a").value.base + 1)
    ELSE /\ last.entries[1].type = "error"
         /\ last.entries[1].error = "Undefined symbol"

\* "a = 1" and then "b = a + 1": a is the variable of the scope, whatever
\* the store holds
C20_Shadowed ==
  (last.op = "evaluateBlock" /\ last.source = <<a1, bA1>>) =>
    /\ last.entries[2].type = "assignment"
    /\ last.entries[2].value = Num(2)

\* the inline expression "a": the scope's variable, else the global
\* constant when it is visible, else an error
C20_Inline ==
  (last.op = "evaluateInline" /\ last.source = <<Expression(ESym("a"))>>) =>
    IF MapHas(scopes[last.filePath].vars, "a")
    THEN last.entries[1].value = scopes[last.filePath].vars["a"].value
    ELSE IF GlobalVisible
    THEN last.entries[1].value = GlobalGet(globalVars, "a").value
    ELSE last.entries[1].kind = "error"

\* C20: the binding of an expression of a document is the global constants,
\* only when globalVarsEnabled is true, overlaid by the variables of the
\* document's scope: a scope variable shadows the global constant of the
\* same name, and no global constant is visible when the feature is off.
C20_Binding == C20_GlobalRead /\ C20_Shadowed /\ C20_Inline

\* "a = 1", "b = a + 1" has been evaluated while the global constant a = 3
\* is visible
C20_Witness ==
  /\ last.op = "evaluateBlock"
  /\ last.source = <<a1, bA1>>
  /\ GlobalVisible
  /\ GlobalGet(globalVars, "a").value = Num(3)
  /\ last.entries[2].value = Num(2)

-----------------------------------------------------------------------------
(* C26 *)

\* a display: the digits of the magnitude, a blank, the unit
Shown(magnitude, unit) == magnitude \o <<" ", unit>>

\* a sample block has been evaluated under a unit system, at 4 decimals
SampleEvaluated(source, system) ==
  /\ last.op = "evaluateBlock"
  /\ last.source = source
  /\ settings.defaultUnitSystem = system
  /\ settings.sigFigs = 4

\* the displays of the assignments of mass, force and flow, and of the
\* expressions that follow them
SampleDisplays(mass, force, flow) ==
  /\ last.entries[1].display = mass /\ last.entries[2].display = mass
  /\ last.entries[4].display = force /\ last.entries[5].display = force
  /\ last.entries[7].display = flow /\ last.entries[8].display = flow

C26_MassAndForce ==
  /\ SampleEvaluated(SampleSI, "SI") =>
       /\ last.entries[1].display = Shown(<<"0", ".", "9", "0", "7", "2">>, "kg")
       /\ last.entries[4].display =
            Shown(<<"4", "4", ".", "4", "8", "2", "2">>, "N")
  /\ SampleEvaluated(SampleUS, "US") =>
       /\ last.entries[1].display =
            Shown(<<"1", "1", ".", "0", "2", "3", "1">>, "lb")
       /\ last.entries[4].display =
            Shown(<<"2", "2", ".", "4", "8", "0", "9">>, "lbf")

\* C26: the documented samples at 4 decimal places: under SI, mass = 2 lb
\* displays 0.9072 kg, force = 10 lbf displays 44.4822 N and
\* flow = 15 gal/min displays 0.0009 m^3/s; under US, mass = 5 kg displays
\* 11.0231 lb, force = 100 N displays 22.4809 lbf and flow = 0.001 m^3/s
\* displays 2.1189 ft^3/min.
C26_DocumentedSamples ==
  /\ SampleEvaluated(SampleSI, "SI") =>
       SampleDisplays(Shown(<<"0", ".", "9", "0", "7", "2">>, "kg"),
                      Shown(<<"4", "4", ".", "4", "8", "2", "2">>, "N"),
                      Shown(<<"0", ".", "0", "0", "0", "9">>, "m^3/s"))
  /\ SampleEvaluated(SampleUS, "US") =>
       SampleDisplays(Shown(<<"1", "1", ".", "0", "2", "3", "1">>, "lb"),
                      Shown(<<"2", "2", ".", "4", "8", "0", "9">>, "lbf"),
                      Shown(<<"2", ".", "1", "1", "8", "9">>, "ft^3/min"))

-----------------------------------------------------------------------------
(* C21: the stored value does not depend on the presentation settings.     *)

\* the lines of a text that assign a literal, whose value no binding decides
LiteralAssignments(source) ==
  {i \in 1..Len(source) :
     source[i].kind = "assignment" /\ source[i].expr.op \in {"num", "milli"}}

\* the value of a literal, computed without the settings
LiteralValue(expr) == MathEvaluate(expr, EmptyMap).value

\* C21: presentation does not change the computed value: after a block
\* evaluation, under every unit system and precision, the value stored for a
\* variable assigned from a literal, and the value of its entry, is the
\* result of evaluating the expression; the source line is the text of the
\* assignment
C21_ValueUnchanged ==
  (last.op = "evaluateBlock" /\ last.error = "") =>
    \A i \in LiteralAssignments(last.source) :
      /\ last.entries[i].value = LiteralValue(last.source[i].expr)
      /\ scopes[last.filePath].vars[last.source[i].name].value
           = LiteralValue(last.source[i].expr)
      /\ scopes[last.filePath].vars[last.source[i].name].sourceLine
           = last.source[i]

\* the samples evaluated under a unit system that shows pounds as kilograms
\* and at a precision other than the default: the value of mass is still
\* 2 lb, the unit field says kg
C21_Witness ==
  /\ last.op = "evaluateBlock" /\ last.source = SampleSI
  /\ settings.defaultUnitSystem = "SI" /\ settings.sigFigs = 3
  /\ scopes[last.filePath].vars["mass"].value = Qty(2, "lb")
  /\ scopes[last.filePath].vars["mass"].unit = "kg"
  /\ scopes[last.filePath].vars["flow"].value = Qty(15, "gal/min")
  /\ scopes[last.filePath].vars["flow"].unit = "m^3 / s"

-----------------------------------------------------------------------------
(* C22: the display of a variable is the formatting of its value.          *)

\* the formatting of a value under the active unit system and precision
ActiveFormat(value) ==
  formatValueParts(normalizeUnitToSystem(value, settings.defaultUnitSystem),
                   settings.sigFigs)

\* the names a text assigns
AssignedNames(source) ==
  {source[i].name : i \in {j \in 1..Len(source) : source[j].kind = "assignment"}}

\* C22: after an evaluation pass that completed, every variable the pass
\* assigned has the display, magnitude and unit that formatting its value
\* under the active unit system and precision gives, also when a setting
\* changed since the previous pass and the text did not
C22_DisplayDerivable ==
  (last.op = "evaluateBlock" /\ last.error = ""
     /\ \A i \in 1..Len(last.entries) : last.entries[i].type # "error") =>
    \A name \in AssignedNames(last.source) :
      /\ scopes[last.filePath].vars[name].display
           = ActiveFormat(scopes[last.filePath].vars[name].value).display
      /\ scopes[last.filePath].vars[name].magnitude
           = ActiveFormat(scopes[last.filePath].vars[name].value).magnitude
      /\ scopes[last.filePath].vars[name].unit
           = ActiveFormat(scopes[last.filePath].vars[name].value).unit

\* a pass over the text of the pass before it, after the unit system or the
\* precision changed, with automatic recalculation off, so that the scope
\* still held the variables as the pass before had formatted them
C22_Witness ==
  /\ last.op = "evaluateBlock" /\ last.restyled
  /\ ~settings.autoRecalc /\ ~last.clean
  /\ last.source = SampleUS
  /\ settings.defaultUnitSystem = "US" /\ settings.sigFigs = 3
  /\ scopes[last.filePath].vars["mass"].unit = "lb"

-----------------------------------------------------------------------------
(* C25: the display unit is looked up by dimension and system.             *)

\* the display unit of a unit under a system: kg or lb for a mass, N or lbf
\* for a force, m^3/s or ft^3/min for a volume flow; the unit itself for a
\* dimension without a row
DisplayUnit(u, system) ==
  CASE Dimension(u) = "mass" -> IF system = "SI" THEN "kg" ELSE "lb"
    [] Dimension(u) = "force" -> IF system = "SI" THEN "N" ELSE "lbf"
    [] Dimension(u) = "flow" -> IF system = "SI" THEN "m^3/s" ELSE "ft^3/min"
    [] OTHER -> u

\* a quantity written in a unit of its dimension at the active precision
Presented(value, u) ==
  FormattedValueParts(
    trimZeros(ToFixed(value.base, UnitFactor(u), settings.sigFigs)),
    formatUnits(u))

\* the variables of the last pass whose dimension the property speaks of
NormalizedNames ==
  {name \in AssignedNames(last.source) :
     Dimension(scopes[last.filePath].vars[name].value.u) # "time"}

\* C25: after a block evaluation, a mass, a force and a volume flow are
\* displayed in the unit of the table for the active system; a plain number
\* and a quantity whose dimension has no row are displayed as they are; no
\* line that assigns a value is an error
C25_Normalized ==
  (last.op = "evaluateBlock" /\ last.source \in UnitBlocks) =>
    /\ last.error = ""
    /\ \A i \in 1..Len(last.entries) : last.entries[i].type # "error"
    /\ \A name \in NormalizedNames :
         LET variable == scopes[last.filePath].vars[name]
             shown == Presented(variable.value,
                        DisplayUnit(variable.value.u,
                                    settings.defaultUnitSystem))
         IN  /\ variable.unit = shown.unit
             /\ variable.magnitude = shown.magnitude
             /\ variable.display = shown.display

\* under US: a plain number and a current are displayed as they are, a force
\* in lbf, and with automatic recalculation off the mass that the block
\* evaluated before assigned in kg is displayed in lb
C25_Witness ==
  /\ last.op = "evaluateBlock" /\ last.source = SampleOther
  /\ settings.defaultUnitSystem = "US"
  /\ scopes[last.filePath].vars["n"].display = <<"7">>
  /\ scopes[last.filePath].vars["i"].display = <<"3", " ", "A">>
  /\ scopes[last.filePath].vars["w"].display = <<"3", " ", "lbf">>
  /\ MapHas(scopes[last.filePath].vars, "mass")
  /\ scopes[last.filePath].vars["mass"].value.u = "kg"
  /\ scopes[last.filePath].vars["mass"].unit = "lb"

-----------------------------------------------------------------------------
(* C23: the rules of the line classifier, in order.                        *)

\* a line that is written on one line: no line terminator inside
OneLine(line) == NoneIn(line, 1, Len(line), LineTerminators)

CommentForm(line) ==
  StartsWith(line, <<"/", "/">>) \/ StartsWith(line, <<"#">>)

\* identifier = rest: the pairs of the end of the identifier and the place of
\* the sign, with nothing but blanks between them and a rest that is not empty
AssignmentForms(line) ==
  {f \in (1..Len(line)) \X (1..Len(line)) :
     /\ f[1] < f[2]
     /\ isValidIdentifier(SubSeq(line, 1, f[1]))
     /\ Trim(Slice(line, f[1] + 1, f[2] - 1)) = <<>>
     /\ line[f[2]] = "="
     /\ Trim(Slice(line, f[2] + 1, Len(line))) # <<>>}

\* the places of a separator that has white space on both sides
SeparatorPlaces(line) ==
  {q \in 2..(Len(line) - 2) :
     /\ SubSeq(line, q, q + 1) \in Separators
     /\ line[q - 1] \in WhiteSpace /\ line[q + 2] \in WhiteSpace}

-----------------------------------------------------------------------------
(* C24: a separator at the start or at the end of a line.                  *)

\* a line that begins with a separator and a white space, or ends with a
\* white space and a separator
SeparatorAtStart(line) ==
  Len(line) >= 3 /\ SubSeq(line, 1, 2) \in Separators /\ line[3] \in WhiteSpace

SeparatorAtEnd(line) ==
  /\ Len(line) >= 3
  /\ SubSeq(line, Len(line) - 1, Len(line)) \in Separators
  /\ line[Len(line) - 2] \in WhiteSpace

\* a line that is neither a comment nor an assignment and whose only
\* separators are at its start or at its end, as "-> x" and "x to"
NoClearSplit(line) ==
  /\ OneLine(line)
  /\ ~CommentForm(line) /\ AssignmentForms(line) = {}
  /\ SeparatorPlaces(line) = {}
  /\ SeparatorAtStart(line) \/ SeparatorAtEnd(line)

\* C24: a line that has a conversion separator and no clear split into an
\* expression and a target, such as a line with the separator at its start
\* or at its end, is an error with the message
\* "Bad convert syntax. Use: expr -> unit"
C24_BadConvertSyntax ==
  (last.op = "evaluateLine" /\ NoClearSplit(last.line)) =>
    last.result.error = BadConvertSyntax

\* the exception of splitConvert needs a line terminator inside the line
BadConvertOnlyWithTerminator ==
  (last.op = "evaluateLine" /\ last.result.error = BadConvertSyntax) =>
    ~OneLine(last.line)

-----------------------------------------------------------------------------
(* C27: inline evaluation works on the scope of the document.              *)

\* an inline evaluation of a statement that is not empty
InlineStep == last'.op = "evaluateInline" /\ last'.entries # <<>>

\* the scope of the document before an inline evaluation, a new one when the
\* document has none
ScopeBefore == getScope(scopes, last'.filePath)[last'.filePath]

\* an inline expression that is a name reads the variable of the scope
C27_ReadsScope ==
  (/\ InlineStep
   /\ last'.source[1].kind = "expression"
   /\ last'.source[1].expr.op = "sym"
   /\ MapHas(ScopeBefore.vars, last'.source[1].expr.name)) =>
    /\ last'.entries[1].kind = "expression"
    /\ last'.entries[1].value
         = ScopeBefore.vars[last'.source[1].expr.name].value

\* an inline evaluation removes no variable and changes none but the one it
\* assigns, and leaves the other maps of the scope as they are
C27_NeverResets ==
  InlineStep =>
    /\ scopes'[last'.filePath].formulas = ScopeBefore.formulas
    /\ scopes'[last'.filePath].dependencies = ScopeBefore.dependencies
    /\ scopes'[last'.filePath].dependents = ScopeBefore.dependents
    /\ scopes'[last'.filePath].lineCache = ScopeBefore.lineCache
    /\ \A name \in DOMAIN ScopeBefore.vars :
         /\ MapHas(scopes'[last'.filePath].vars, name)
         /\ (last'.entries[1].kind # "assignment"
               \/ last'.entries[1].name # name) =>
              scopes'[last'.filePath].vars[name] = ScopeBefore.vars[name]

\* an evaluation of the document right after an inline assignment
AfterInlineAssignment ==
  /\ last.op = "evaluateInline" /\ last.entries # <<>>
  /\ last.entries[1].kind = "assignment"
  /\ last'.filePath = last.filePath

\* the lines of a text whose only name is the given one, before the text
\* assigns it
ReadersOf(source, name) ==
  {i \in 1..Len(source) :
     /\ LineSymbols(source[i]) = {name}
     /\ name \notin AssignedBefore(source, i)}

\* what a line evaluates to when the name has the given value
ValueWith(line, name, value) ==
  MathEvaluate(line.expr, [n \in {name} |-> value]).value

\* the lines of the block that read the name get the value the inline
\* statement assigned
C27_BlockSeesInline ==
  \A i \in ReadersOf(last'.source, last.entries[1].name) :
    /\ last'.entries[i].type # "error"
    /\ last'.entries[i].value
         = ValueWith(last'.source[i], last.entries[1].name,
                     last.entries[1].value)

C27_InlineSeesInline ==
  (/\ AfterInlineAssignment /\ InlineStep
   /\ last'.source[1].kind = "expression"
   /\ LineSymbols(last'.source[1]) = {last.entries[1].name}) =>
    last'.entries[1].value
      = ValueWith(last'.source[1], last.entries[1].name, last.entries[1].value)

\* C27 as stated: evaluateInline works on the scope of the document: it reads
\* the variables of the scope, it never resets the scope, and what it
\* assigns is visible to the evaluation that comes next on the document,
\* inline or of a block
C27_SharedWithInlineAlways ==
  [][/\ C27_ReadsScope /\ C27_NeverResets /\ C27_InlineSeesInline
     /\ (AfterInlineAssignment /\ last'.op = "evaluateBlock") =>
          C27_BlockSeesInline]_vars

\* C27, amended: what it assigns is visible to the inline evaluation that
\* comes next, and to the block evaluation that comes next when
\* auto-recalculate is off; when it is on, the block evaluation clears the
\* scope first
C27_SharedWithInline ==
  [][/\ C27_ReadsScope /\ C27_NeverResets /\ C27_InlineSeesInline
     /\ (AfterInlineAssignment /\ last'.op = "evaluateBlock"
           /\ ~settings.autoRecalc) =>
          C27_BlockSeesInline]_vars

\* a1, c = b + 1, b = 5 evaluated with auto-recalculate off right after the
\* inline statement b = 7: c is 8
C27_Witness ==
  /\ last.op = "evaluateBlock" /\ ~settings.autoRecalc
  /\ last.source = <<a1, cB1, b5>>
  /\ ~last.clean
  /\ last.entries[2].type = "assignment"
  /\ last.entries[2].value = Num(8)

-----------------------------------------------------------------------------
(* C28: peekScope only reads.                                              *)

\* peekScope leaves the scope table as it is and returns the scope of the
\* document, or nothing when the document has none
PeekStep ==
  last'.op = "peekScope" =>
    /\ scopes' = scopes
    /\ IF MapHas(scopes, last'.filePath)
       THEN last'.entries = <<scopes[last'.filePath]>>
       ELSE last'.entries = <<>>

\* a document gets a scope only by an evaluation of that document, and has
\* none after it was cleared
ScopeLifeStep ==
  /\ \A filePath \in (DOMAIN scopes') \ (DOMAIN scopes) :
       /\ last'.op \in {"evaluateBlock", "evaluateInline"}
       /\ last'.filePath = filePath
  /\ last'.op = "clearScope" => ~MapHas(scopes', last'.filePath)
  /\ last'.op = "clearAllScopes" => scopes' = EmptyMap

\* C28: peekScope is read-only: it returns absent for a document that was
\* never evaluated or was cleared, and it neither adds a scope to the table
\* nor changes a scope; no document has a scope at the start, and only an
\* evaluation of a document creates its scope
C28_PeekReadOnly ==
  /\ (last.op = "init" => scopes = EmptyMap)
  /\ [][PeekStep /\ ScopeLifeStep]_vars

\* peekScope on d2, which has no scope, while d1 has one: nothing is
\* returned and d2 still has no scope
C28_Witness ==
  /\ last.op = "peekScope" /\ last.filePath = "d2"
  /\ last.entries = <<>>
  /\ MapHas(scopes, "d1") /\ ~MapHas(scopes, "d2")
  /\ scopes["d1"].vars # EmptyMap

-----------------------------------------------------------------------------
(* C29: a block evaluation is not interleaved with another call.           *)

\* the calls that are evaluating a block: begun and not yet returned
BlocksInFlight == {id \in CallIds : calls.pool[id].op = "evaluateBlock"}

\* while a block is evaluated, a step is a step of that evaluation: no other
\* call begins or goes on, and the store of constants and the data file
\* stay as they are
C29_OnlyItsOwnSteps ==
  \A id \in BlocksInFlight :
    /\ calls'.pool[id] # calls.pool[id]
    /\ \A other \in CallIds \ {id} : calls'.pool[other] = calls.pool[other]
    /\ globalVars' = globalVars /\ saved' = saved /\ settings' = settings

\* the entries of a block that returns, and the scopes it leaves, are those
\* of an evaluation of all its lines, one after the other, from the scopes
\* it found
C29_ResultComplete ==
  \A id \in BlocksInFlight :
    calls'.pool[id] = Idle =>
      LET call == calls.pool[id]
          r == evaluateToEntries(call.table, call.source, call.filePath,
                                 call.reset, call.blockKey)
      IN  /\ last'.op = "evaluateBlock"
          /\ last'.entries = r.entries
          /\ last'.evaluated = r.evaluated
          /\ scopes' = r.table

\* C29: block evaluation is atomic with respect to the other calls of the
\* engine: with evaluateBlock, evaluateInline, upsertGlobalVar and
\* deleteGlobalVar calls in flight, all lines of a block are evaluated and
\* its entries completed with no line evaluation and no change of the store
\* by another call in between
C29_BlockAtomic == [][C29_OnlyItsOwnSteps /\ C29_ResultComplete]_vars

\* a block that reads the constant a has evaluated no line yet, or one of
\* two, while an upsertGlobalVar of a awaits its save
C29_Witness ==
  \E id \in BlocksInFlight, other \in CallIds :
    /\ calls.pool[id].index < Len(calls.pool[id].source)
    /\ calls.pool[id].source = <<bA1>>
    /\ settings.globalVarsEnabled
    /\ calls.pool[other].op = "upsertGlobalVar"
    /\ calls.pool[other].state = "awaiting"
    /\ calls.pool[other].name = <<"a">>

-----------------------------------------------------------------------------
(* Lab journal: the title of a note made safe for a file name.             *)

INVALID_FILENAME_CHARACTERS == {"\\", "/", ":", "*", "?", "\"", "<", ">", "|"}

\* String.replace(INVALID_FILENAME_CHARACTERS, "-")
ReplaceInvalid(chars) ==
  [i \in DOMAIN chars |->
     IF chars[i] \in INVALID_FILENAME_CHARACTERS THEN "-" ELSE chars[i]]

\* the text without the characters of a set that it begins with
RECURSIVE DropLeading(_, _)
DropLeading(chars, set) ==
  IF chars # <<>> /\ Head(chars) \in set THEN DropLeading(Tail(chars), set)
  ELSE chars

RECURSIVE DropTrailing(_, _)
DropTrailing(chars, set) ==
  IF chars # <<>> /\ chars[Len(chars)] \in set
  THEN DropTrailing(SubSeq(chars, 1, Len(chars) - 1), set)
  ELSE chars

\* String.replace(/\s+/g, " ") and String.replace(/-+/g, "-"): every run of
\* characters of the set becomes one character
RECURSIVE CollapseRuns(_, _, _)
CollapseRuns(chars, set, by) ==
  IF chars = <<>> THEN <<>>
  ELSE IF Head(chars) \in set
  THEN <<by>> \o CollapseRuns(DropLeading(chars, set), set, by)
  ELSE <<Head(chars)>> \o CollapseRuns(Tail(chars), set, by)

\* String.replace(/^-+|-+$/g, "")
StripDashes(chars) == DropTrailing(DropLeading(chars, {"-"}), {"-"})

Untitled == <<"U", "n", "t", "i", "t", "l", "e", "d">>

Cleaned(rawTitle) ==
  StripDashes(
    CollapseRuns(CollapseRuns(ReplaceInvalid(Trim(rawTitle)), WhiteSpace, " "),
                 {"-"}, "-"))

sanitizeLabNoteTitle(rawTitle) ==
  IF Cleaned(rawTitle) = <<>> THEN Untitled ELSE Cleaned(rawTitle)

\* the characters of the titles: a letter, two kinds of white space, the
\* dash and two characters that a file name cannot have; the longest title
TitleChars == {"a", " ", "\r", "-", "/", ":"}

MaxTitle == 5

RECURSIVE TitlesOf(_)
TitlesOf(n) ==
  IF n = 0 THEN {<<>>}
  ELSE {<<>>} \cup {<<c>> \o rest : c \in TitleChars, rest \in TitlesOf(n - 1)}

\* a title is given
SanitizeInit ==
  /\ scopes = EmptyMap
  /\ settings = [autoRecalc |-> TRUE, defaultUnitSystem |-> "SI", sigFigs |-> 4,
                 globalVarsEnabled |-> FALSE]
  /\ globalVars = EmptyMap
  /\ saved = EmptyMap
  /\ working = NewScope
  /\ calls = NoCalls
  /\ \E rawTitle \in TitlesOf(MaxTitle) :
       last = [op |-> "title", rawTitle |-> rawTitle, times |-> 0]

\* sanitizeLabNoteTitle applied to the title, and then to its own result
Sanitize ==
  /\ last.op = "title" /\ last.times < 2
  /\ last' = [op |-> "title", rawTitle |-> last.rawTitle,
              times |-> last.times + 1,
              given |-> IF last.times = 0 THEN last.rawTitle ELSE last.safeTitle,
              safeTitle |-> sanitizeLabNoteTitle(
                              IF last.times = 0 THEN last.rawTitle
                              ELSE last.safeTitle)]
  /\ UNCHANGED <<scopes, settings, globalVars, saved, working, calls>>

SanitizeNext == Sanitize

SanitizeSpec == SanitizeInit /\ [][SanitizeNext]_vars

-----------------------------------------------------------------------------
(* C30: the title is fully sanitized.                                      *)

\* no two neighbours of a text are both in the set
NoRun(chars, set) ==
  \A i \in 1..(Len(chars) - 1) : ~(chars[i] \in set /\ chars[i + 1] \in set)

Edges(chars) == {chars[i] : i \in {1, Len(chars)} \cap DOMAIN chars}

FullySanitized(chars) ==
  /\ \A i \in DOMAIN chars : chars[i] \notin INVALID_FILENAME_CHARACTERS
  /\ NoRun(chars, WhiteSpace) /\ NoRun(chars, {"-"})
  /\ Edges(chars) \cap (WhiteSpace \cup {"-"}) = {}

\* C30: the result of sanitizeLabNoteTitle has none of \ / : * ? " < > |, no
\* run of two or more white space characters or dashes and no white space
\* or dash at its start or end, and sanitizeLabNoteTitle applied to its own
\* result returns it unchanged
C30_FullySanitized ==
  (last.op = "title" /\ last.times >= 1) =>
    /\ FullySanitized(last.safeTitle)
    /\ last.times = 2 => last.safeTitle = last.given

\* what holds of every result: no invalid character, no run, no dash at an
\* end
Sanitized ==
  (last.op = "title" /\ last.times >= 1) =>
    /\ \A i \in DOMAIN last.safeTitle :
         last.safeTitle[i] \notin INVALID_FILENAME_CHARACTERS
    /\ NoRun(last.safeTitle, WhiteSpace) /\ NoRun(last.safeTitle, {"-"})
    /\ Edges(last.safeTitle) \cap {"-"} = {}

\* the examples of the tests, in the characters of the model: "--a  // a--"
\* gives "a - a" and "///" gives "Untitled"
SanitizeExamples ==
  /\ sanitizeLabNoteTitle(<<"-", "-", "a", " ", " ", "/", "/", " ", "a", "-">>)
       = <<"a", " ", "-", " ", "a">>
  /\ sanitizeLabNoteTitle(<<"/", "/", "/">>) = Untitled

-----------------------------------------------------------------------------
(* C31: the fallback title.                                                *)

IsBlank(chars) == \A i \in DOMAIN chars : chars[i] \in WhiteSpace

\* C31: for every title, the result of sanitizeLabNoteTitle is never empty
\* and never consists of white space only: when nothing usable remains after
\* sanitizing, the result is the default title Untitled
C31_NeverBlank ==
  (last.op = "title" /\ last.times >= 1) =>
    /\ last.safeTitle # <<>>
    /\ ~IsBlank(last.safeTitle)
    /\ IsBlank(Cleaned(last.given)) => last.safeTitle = Untitled

\* what holds of every result: it is never empty, and it is the default
\* title when nothing at all remains after sanitizing
NeverEmpty ==
  (last.op = "title" /\ last.times >= 1) =>
    /\ last.safeTitle # <<>>
    /\ Cleaned(last.given) = <<>> => last.safeTitle = Untitled

-----------------------------------------------------------------------------
(* C32: the cached lines of a block that has become shorter.               *)

\* the key of the block that the last call evaluated, and the scope it used
LastBlockKey == buildBlockKey(last.filePath, last.docId, last.source)

LastScope == scopes[last.filePath]

\* the line indexes of the longest text
LineIndexes == 0..Greatest({Len(Texts[t]) : t \in DOMAIN Texts})

\* the indexes that the last pass did not visit
Unvisited == {i \in LineIndexes : i >= Len(last.source)}

\* C32: after the evaluation of a block with block key K and n lines, the
\* line cache holds no entry under K for a line index that was not visited in
\* this pass: every key K:i with i >= n is gone
C32_UnvisitedPruned ==
  last.op = "evaluateBlock" =>
    \A i \in Unvisited : ~MapHas(LastScope.lineCache, LineKey(LastBlockKey, i))

\* an earlier, longer version of the block had left a key K:i with i >= n in
\* the cache, and the pass deleted it
C32_Witness ==
  /\ last.op = "evaluateBlock"
  /\ \E i \in Unvisited :
       /\ LineKey(LastBlockKey, i) \in last.cached
       /\ ~MapHas(LastScope.lineCache, LineKey(LastBlockKey, i))

-----------------------------------------------------------------------------
(* C33: one pass, in source order.                                         *)

\* the entries of a pass over the first i lines of the text that the step
\* evaluates, from the scope table as it is before the step
PrefixEntries(i) ==
  evaluateToEntries(scopes, SubSeq(last'.source, 1, i), last'.filePath,
                    settings.autoRecalc,
                    buildBlockKey(last'.filePath, last'.docId, last'.source)
                   ).entries

\* C33: evaluation is single-pass in source order: a pass gives one entry for
\* each line, in the order of the lines, every line that is not blank and
\* not a comment is evaluated, and the entry of a line is what the
\* pass over the lines up to it gives from the state left before the pass; an
\* assignment on a later line never changes the result already produced for
\* an earlier line in the same pass
C33_SinglePass ==
  [][last'.op = "evaluateBlock" =>
       /\ Len(last'.entries) = Len(last'.source)
       /\ Len(last'.evaluated) = Len(last'.source)
       /\ \A i \in 1..Len(last'.source) :
            /\ last'.entries[i].raw = last'.source[i]
            /\ last'.evaluated[i] =
                 (last'.source[i].kind \notin {"blank", "comment"})
            /\ last'.entries[i] = PrefixEntries(i)[i]]_vars

\* c = b + 1 on line 2 was evaluated with the b that an inline statement had
\* left before the pass, b = 5 on line 3 came after it: c is 8 and b is 5
C33_Witness ==
  /\ last.op = "evaluateBlock" /\ last.source = <<a1, cB1, b5>>
  /\ last.entries[2].type = "assignment"
  /\ last.entries[2].value = Num(8)
  /\ last.entries[3].type = "assignment"
  /\ scopes[last.filePath].vars["b"].value = Num(5)
  /\ scopes[last.filePath].vars["c"].value = Num(8)

-----------------------------------------------------------------------------
(* The texts that toFixed gives, and trimZeros applied to them.            *)

\* the characters of the decimal texts and the length of the longest
DecimalChars == {"0", "1", "5", ".", "-"}

MaxDecimal == 5

RECURSIVE DecimalsOf(_)
DecimalsOf(n) ==
  IF n = 0 THEN {<<>>}
  ELSE {<<>>} \cup {<<c>> \o rest : c \in DecimalChars, rest \in DecimalsOf(n - 1)}

\* where the point of a text is; 0 when it has none
PointOf(x) ==
  IF \E i \in DOMAIN x : x[i] = "." THEN CHOOSE i \in DOMAIN x : x[i] = "."
  ELSE 0

IntegerPart(x) == IF PointOf(x) = 0 THEN x ELSE SubSeq(x, 1, PointOf(x) - 1)

Fraction(x) ==
  IF PointOf(x) = 0 THEN <<>> ELSE SubSeq(x, PointOf(x) + 1, Len(x))

IsDigits(x) == x # <<>> /\ \A i \in DOMAIN x : x[i] \in {"0", "1", "5"}

Unsigned(x) == IF x # <<>> /\ Head(x) = "-" THEN Tail(x) ELSE x

\* a fixed-point decimal text, as toFixed writes it: an optional sign, the
\* digits of the integer part and, with a point before them, the digits of
\* the fractional part
IsFixedPoint(x) ==
  /\ IsDigits(Unsigned(IntegerPart(x)))
  /\ PointOf(x) # 0 => IsDigits(Fraction(x))

\* a decimal text is given
TrimInit ==
  /\ scopes = EmptyMap
  /\ settings = [autoRecalc |-> TRUE, defaultUnitSystem |-> "SI", sigFigs |-> 4,
                 globalVarsEnabled |-> FALSE]
  /\ globalVars = EmptyMap
  /\ saved = EmptyMap
  /\ working = NewScope
  /\ calls = NoCalls
  /\ \E x \in {d \in DecimalsOf(MaxDecimal) : IsFixedPoint(d)} :
       last = [op |-> "decimal", x |-> x, times |-> 0]

\* trimZeros applied to the text, and then to its own result
TrimZeros ==
  /\ last.op = "decimal" /\ last.times < 2
  /\ last' = [op |-> "decimal", x |-> last.x, times |-> last.times + 1,
              given |-> IF last.times = 0 THEN last.x ELSE last.trimmed,
              trimmed |-> trimZeros(IF last.times = 0 THEN last.x
                                    ELSE last.trimmed)]
  /\ UNCHANGED <<scopes, settings, globalVars, saved, working, calls>>

TrimNext == TrimZeros

TrimSpec == TrimInit /\ [][TrimNext]_vars

-----------------------------------------------------------------------------
(* C34: trimZeros.                                                         *)

\* C34: trimZeros applied to a fixed-point decimal text removes exactly the
\* zeros at the end of the fractional part, removes the point too when the
\* whole fractional part is zero (5.0 gives 5), never changes the digits of
\* the integer part (100 stays 100), and is idempotent
C34_TrimsFraction ==
  (last.op = "decimal" /\ last.times >= 1) =>
    /\ IntegerPart(last.trimmed) = IntegerPart(last.x)
    /\ Fraction(last.trimmed) = DropTrailing(Fraction(last.x), {"0"})
    /\ (PointOf(last.trimmed) # 0) <=> (Fraction(last.trimmed) # <<>>)
    /\ last.times = 2 => last.trimmed = last.given

\* 5.0 has given 5, and a second application has left it
C34_Witness ==
  /\ last.op = "decimal" /\ last.times = 2
  /\ last.x = <<"5", ".", "0">>
  /\ last.trimmed = <<"5">>

\* the examples: 5.0 gives 5, 100 stays 100, 1.500 gives 1.5, 1.050 gives
\* 1.05
TrimExamples ==
  /\ trimZeros(<<"5", ".", "0">>) = <<"5">>
  /\ trimZeros(<<"1", "0", "0">>) = <<"1", "0", "0">>
  /\ trimZeros(<<"1", ".", "5", "0", "0">>) = <<"1", ".", "5">>
  /\ trimZeros(<<"1", ".", "0", "5", "0">>) = <<"1", ".", "0", "5">>

-----------------------------------------------------------------------------
(* C35: the pruning step and the cached lines of other blocks.             *)

\* the keys of the lines of a block
LineKeysOf(blockKey) == {LineKey(blockKey, i) : i \in LineIndexes}

\* C35: the pruning step of an evaluation with block key K deletes line-cache
\* entries of block K only: an entry stored under another block key K2 of the
\* same scope is still there after the evaluation, also when K is a proper
\* prefix of K2
C35_PrunesOwnKeysOnly ==
  last.op = "evaluateBlock" =>
    \A k \in last.cached \ LineKeysOf(LastBlockKey) :
      MapHas(LastScope.lineCache, k)

\* what holds: the pruning step deletes no entry whose key does not start with
\* the block key and a colon
PrunesByPrefix ==
  last.op = "evaluateBlock" =>
    \A k \in last.cached :
      ~StartsWith(k, LastBlockKey \o <<":">>) => MapHas(LastScope.lineCache, k)

-----------------------------------------------------------------------------
(* C36: the cached lines and the text just evaluated.                      *)

\* whether a line-cache entry describes the entry that a pass made for a line
Describes(cached, line, entry) ==
  /\ entry.type \in {"expression", "convert"}
  /\ cached.type = entry.type
  /\ cached.expr = line.expr
  /\ entry.type = "convert" => cached.targetUnit = line.target

\* C36: after an evaluation pass for block key K, every line-cache entry K:i
\* describes line i of the text just evaluated: line i is a successfully
\* evaluated plain expression or conversion and the entry's expr (and target
\* unit) are those of that line; no entry remains for an index whose line is
\* now blank, a comment, an assignment, or failed to evaluate
C36_CacheDescribesText ==
  last.op = "evaluateBlock" =>
    \A i \in LineIndexes :
      MapHas(LastScope.lineCache, LineKey(LastBlockKey, i)) =>
        /\ i < Len(last.source)
        /\ Describes(LastScope.lineCache[LineKey(LastBlockKey, i)],
                     last.source[i + 1], last.entries[i + 1])

\* what holds: every plain expression or conversion that the pass evaluated
\* successfully has its entry, which describes it
EvaluatedLinesCached ==
  last.op = "evaluateBlock" =>
    \A i \in 0..(Len(last.source) - 1) :
      last.entries[i + 1].type \in {"expression", "convert"} =>
        /\ MapHas(LastScope.lineCache, LineKey(LastBlockKey, i))
        /\ Describes(LastScope.lineCache[LineKey(LastBlockKey, i)],
                     last.source[i + 1], last.entries[i + 1])

-----------------------------------------------------------------------------
(* C37: every variable has a formula and a dependency set.                 *)

\* C37: in every reachable state of an engine-owned scope, every variable has
\* a formula record and a dependency set: the names in vars are a subset of
\* the names in formulas, and formulas and dependencies have the same names,
\* whichever of evaluateBlock or evaluateInline performed the assignment
C37_EveryVariableTracked ==
  \A filePath \in DOMAIN scopes :
    /\ DOMAIN scopes[filePath].vars \subseteq DOMAIN scopes[filePath].formulas
    /\ DOMAIN scopes[filePath].formulas = DOMAIN scopes[filePath].dependencies

\* what holds: formulas and dependencies have the same names, and a variable
\* without a formula is one that the last inline statement assigned or that
\* had none before the last call
FormulasMatchDependencies ==
  \A filePath \in DOMAIN scopes :
    DOMAIN scopes[filePath].formulas = DOMAIN scopes[filePath].dependencies

UntrackedOnlyByInline ==
  [][\A filePath \in DOMAIN scopes' :
       \A name \in DOMAIN scopes'[filePath].vars \
                     DOMAIN scopes'[filePath].formulas :
         \/ /\ last'.op = "evaluateInline"
            /\ last'.source[1].kind = "assignment"
            /\ last'.source[1].name = name
         \/ /\ MapHas(scopes, filePath)
            /\ MapHas(scopes[filePath].vars, name)
            /\ ~MapHas(scopes[filePath].formulas, name)]_vars

-----------------------------------------------------------------------------
(* C38: an assignment that fails.                                          *)

\* the working scope after the first i lines of the text that the step
\* evaluates, from the scope table as it is before the step
ScopeAfterLines(i) ==
  evaluateToEntries(scopes, SubSeq(last'.source, 1, i), last'.filePath,
                    settings.autoRecalc,
                    buildBlockKey(last'.filePath, last'.docId, last'.source)
                   ).scope

\* whether a map has the same for a key as another map
SameAt(m1, m2, k) ==
  /\ MapHas(m1, k) <=> MapHas(m2, k)
  /\ MapHas(m1, k) => m1[k] = m2[k]

\* whether two scopes hold the same for a name: value and display, formula,
\* dependency set, and the edges of the reverse map
SameFor(name, before, after) ==
  /\ SameAt(before.vars, after.vars, name)
  /\ SameAt(before.formulas, after.formulas, name)
  /\ SameAt(before.dependencies, after.dependencies, name)
  /\ before.dependents = after.dependents

FailedAssignments(source, entries) ==
  {i \in 1..Len(source) :
     source[i].kind = "assignment" /\ entries[i].type = "error"}

\* C38: if the evaluation of an assignment line name = expr fails, the scope
\* is unchanged for name: a previously stored value and display of name, its
\* formula record and its dependency edges in both maps are exactly as before
\* the line, and no variable is created when name was not defined
C38_FailedAssignmentKeeps ==
  [][last'.op = "evaluateBlock" =>
       \A i \in FailedAssignments(last'.source, last'.entries) :
         SameFor(last'.source[i].name, ScopeAfterLines(i - 1),
                 ScopeAfterLines(i))]_vars

\* b = a + undefinedVar has failed in a scope where b was defined as a + 1:
\* b still has its value, its formula and its edge from a; and c = a * 2 of
\* the next line was evaluated
C38_Witness ==
  /\ last.op = "evaluateBlock" /\ last.source = <<a5kg, bAu, cA2>>
  /\ last.entries[2].type = "error"
  /\ last.entries[3].type = "assignment"
  /\ MapHas(LastScope.vars, "b")
  /\ LastScope.vars["b"].value = Num(2)
  /\ LastScope.formulas["b"] = bA1.expr
  /\ "b" \in LastScope.dependents["a"]

-----------------------------------------------------------------------------
(* C39: evaluateToEntries without persistence.                             *)

\* C39: evaluateToEntries called with persist false never creates, deletes or
\* mutates an entry of the engine's per-document scope table and triggers no
\* scope-changed notification: all its mutations go to the caller-supplied
\* working scope, or to a temporary scope when none is supplied
C39_DetachedLeavesEngine ==
  [][last'.op = "evaluateToEntries" =>
       /\ scopes' = scopes
       /\ ~last'.notified]_vars

\* a call with resetScope for a document whose engine scope has a = 1, with a
\* working scope in which a is 2: the engine's scope still has a = 1
C39_Witness ==
  /\ last.op = "evaluateToEntries" /\ last.reset
  /\ MapHas(scopes, last.filePath)
  /\ MapHas(scopes[last.filePath].vars, "a")
  /\ scopes[last.filePath].vars["a"].value = Num(1)
  /\ MapHas(working.vars, "a")
  /\ working.vars["a"].value = Num(2)

-----------------------------------------------------------------------------
(* C40: the data file and the store of the global constants.               *)

\* C40: after any interleaving of upsertGlobalVar and deleteGlobalVar calls
\* that have all completed, with the saves applied in the order they were
\* started, the persisted global-constant map equals the in-memory global
\* store; and while the saves are done in that order, the save started last
\* holds the snapshot of the store as it is: it was taken right after the
\* mutation of its call, before any other mutation
C40_SavedIsStore ==
  /\ (calls.saves.order = <<>> /\ calls.saves.inOrder) =>
       saved = serializeGlobalVars(globalVars)
  /\ (calls.saves.order # <<>> /\ calls.saves.inOrder) =>
       calls.pool[calls.saves.order[Len(calls.saves.order)]].data =
         serializeGlobalVars(globalVars)

\* two calls were in flight together, their saves were done in the order in
\* which they were started, and the store is not empty
C40_Witness ==
  /\ calls.saves.order = <<>> /\ calls.saves.inOrder /\ calls.saves.overlapped
  /\ last.op \in {"upsertGlobalVar", "deleteGlobalVar"} /\ last.persisted
  /\ globalVars # EmptyMap
  /\ saved = serializeGlobalVars(globalVars)

\* without the order of the saves the data file may be left with an older
\* snapshot: this does not hold
SavedIsStoreInAnyOrder ==
  calls.saves.order = <<>> => saved = serializeGlobalVars(globalVars)

=============================================================================
